---- MODULE Spec2Model ----
(***************************************************************************)
(* Property filter: the text classifier (parseText), the primitive         *)
(* matchers it is built from, and the query <-> API format converters.     *)
(*                                                                         *)
(* A string is a sequence of one-character strings.  Operators and         *)
(* property keys are atoms; OperatorChars gives the characters of an       *)
(* operator.  The JavaScript null is the atom NULL for operators and       *)
(* keys, and index 0 for "no property of the list".                        *)
(***************************************************************************)
EXTENDS Integers, Sequences, FiniteSets, TLC

VARIABLES
    pc,                   \* "input" before the function under study ran, then its name
    filteringText,        \* parseText / matchers: the text in the input box
    filteringProperties,  \* parseText / matchFilteringProperty: property definitions
    freeTextFiltering,    \* parseText: { disabled, operators, defaultOperator }
    parsedText,           \* result of parseText
    allowedOperators,     \* matchOperator: the operator list
    matched,              \* result of matchFilteringProperty (index) / matchOperator
    matchedPrefix,        \* result of matchOperatorPrefix
    query,                \* internal query { tokens, operation }
    apiQuery,             \* API query { filter: { and, or } }
    convertedBack,        \* apiToQueryFormat(queryToApiFormat(query))
    value,                \* validators: the value handed to the validator
    validation,           \* validators: the result { valid, error?, normalizedValue? }
    filteringOptions,     \* getQueryActions: the options token values are matched against
    calls,                \* getQueryActions: the calls made on the actions object, in order
    emitted,              \* getQueryActions: the arguments onChange was called with, in order
    validationError,      \* PropertyFilter: the validation error shown, NULLSTRING for null
    submittedText,        \* PropertyFilter: the text last handed to createToken
    autosuggestOptions,   \* result of getAutosuggestOptions: { filterText, options }
    selected,             \* the suggestion handed to handleOptionSelect
    reparsed,             \* parseText of the selected suggestion's value
    isOpen,               \* FilterAutosuggest: whether the dropdown is shown
    highlightedIndex,     \* FilterAutosuggest: 0-based index of the highlighted option, -1 for none
    argument,             \* a utility function run alone: what it is called with
    returned,             \* a utility function run alone: what it returned
    applied               \* a utility function run alone: the functions applied so far

vars == <<pc, filteringText, filteringProperties, freeTextFiltering, parsedText,
          allowedOperators, matched, matchedPrefix, query, apiQuery, convertedBack,
          value, validation, filteringOptions, calls, emitted,
          validationError, submittedText, autosuggestOptions, selected, reparsed,
          isOpen, highlightedIndex, argument, returned, applied>>

parseVars == <<filteringText, filteringProperties, freeTextFiltering, parsedText>>
matchVars == <<allowedOperators, matched, matchedPrefix>>
convVars  == <<query, apiQuery, convertedBack>>
validVars == <<value, validation>>

\* the variables of the validators, which the classifier, the matchers and
\* the converters never touch
actionVars == <<filteringOptions, calls, emitted>>
filterVars == <<validationError, submittedText>>
suggestVars == <<autosuggestOptions, selected, reparsed>>
keyVars   == <<isOpen, highlightedIndex>>
utilVars  == <<argument, returned, applied>>
laterVars == <<suggestVars, keyVars, utilVars>>
restVars  == <<validVars, actionVars, filterVars, laterVars>>

-----------------------------------------------------------------------------
(* Bounds *)

MaxTextLen == 4      \* longest text handed to parseText
MaxMatchLen == 3     \* longest text handed to a matcher alone
MaxProps   == 2      \* longest list of property definitions
MaxOps     == 2      \* longest operator list handed to matchOperator
MaxTokens  == 2      \* longest token list / API array
MaxParts   == 5      \* most dot-separated parts of a value handed to validateIPAddress
MaxPorts   == 3      \* most entries of a list handed to validatePortNumber
MaxCalls   == 2      \* most calls made on one actions object
MaxOptions == 2      \* longest list of filtering options handed to getAutosuggestOptions

-----------------------------------------------------------------------------
(* Strings *)

NULL == "NULL"

\* the value of a field that was never set
UNDEFINED == "UNDEFINED"

\* null where a string (a sequence of characters) is expected
NULLSTRING == <<NULL>>

\* the characters a text is made of: one letter in both cases, the space,
\* and the characters of the operators =, !=, :, !:
Alphabet == {"a", "A", " ", "=", "!", ":"}

RECURSIVE StringsUpTo(_)
StringsUpTo(n) ==
    IF n = 0 THEN {<<>>}
    ELSE LET shorter == StringsUpTo(n - 1) IN
         shorter \cup {Append(s, c) : s \in {t \in shorter : Len(t) = n - 1}, c \in Alphabet}

RECURSIVE ListsUpTo(_, _)
ListsUpTo(S, n) ==
    IF n = 0 THEN {<<>>}
    ELSE LET shorter == ListsUpTo(S, n - 1) IN
         shorter \cup {Append(s, x) : s \in {t \in shorter : Len(t) = n - 1}, x \in S}

lowerChar(c) == IF c = "A" THEN "a" ELSE c

toLowerCase(s) == [i \in 1..Len(s) |-> lowerChar(s[i])]

\* String.prototype.slice(k) for 0 <= k
slice(s, k) == IF k >= Len(s) THEN <<>> ELSE SubSeq(s, k + 1, Len(s))

\* String.prototype.indexOf: first 0-based position of target in source, -1 if none
indexOf(source, target) ==
    LET fits == {i \in 0..(Len(source) - Len(target)) :
                    SubSeq(source, i + 1, i + Len(target)) = target}
    IN IF fits = {} THEN -1 ELSE CHOOSE i \in fits : \A j \in fits : i <= j

\* String.prototype.trim: the only white space of Alphabet is the space
RECURSIVE trim(_)
trim(s) ==
    IF s = <<>> THEN s
    ELSE IF Head(s) = " " THEN trim(Tail(s))
    ELSE IF s[Len(s)] = " " THEN trim(SubSeq(s, 1, Len(s) - 1))
    ELSE s

startsWith(source, target) == indexOf(source, target) = 0

trimStart(source) ==
    LET spaces == {n \in 0..Len(source) : \A i \in 1..n : source[i] = " "}
        spacesLength == CHOOSE n \in spaces : \A m \in spaces : m <= n
    IN slice(source, spacesLength)

-----------------------------------------------------------------------------
(* Operators *)

operatorOrder == <<"=", "!=", ":", "!:", "^", "!^", ">=", "<=", "<", ">">>

\* the characters of every operator string the model uses: the ten of the
\* canonical list, the free-text shorthand "!", an unknown symbol "~" and
\* two host-defined operators that differ only in case
OperatorChars(op) ==
    CASE op = "="  -> <<"=">>
      [] op = "!=" -> <<"!", "=">>
      [] op = ":"  -> <<":">>
      [] op = "!:" -> <<"!", ":">>
      [] op = "^"  -> <<"^">>
      [] op = "!^" -> <<"!", "^">>
      [] op = ">=" -> <<">", "=">>
      [] op = "<=" -> <<"<", "=">>
      [] op = "<"  -> <<"<">>
      [] op = ">"  -> <<">">>
      [] op = "!"  -> <<"!">>
      [] op = "~"  -> <<"~">>
      [] op = "a"  -> <<"a">>
      [] op = "A"  -> <<"A">>

Range(s) == {s[i] : i \in 1..Len(s)}

RECURSIVE filterSeq(_, _)
filterSeq(s, keep) ==
    IF s = <<>> THEN <<>>
    ELSE IF Head(s) \in keep THEN <<Head(s)>> \o filterSeq(Tail(s), keep)
    ELSE filterSeq(Tail(s), keep)

\* mutant: the default operator, then the configured ones as configured
getAllowedOperatorsAsConfigured(property) ==
    LET defaultOperator == IF property.defaultOperator = NULL THEN "="
                           ELSE property.defaultOperator
    IN filterSeq(<<defaultOperator>> \o property.operators, Range(operatorOrder))

getAllowedOperators(property) ==
    LET defaultOperator == IF property.defaultOperator = NULL THEN "="
                           ELSE property.defaultOperator
        operatorSet == {defaultOperator} \cup Range(property.operators)
    IN filterSeq(operatorOrder, operatorSet)

-----------------------------------------------------------------------------
(* Primitive matchers *)

\* mutant: the case-sensitive test needs a strictly longer label too
propertyLabelMatchesStrict(propertyLabel, text, maxLength) ==
    \/ Len(propertyLabel) > maxLength /\ startsWith(text, propertyLabel)
    \/ Len(propertyLabel) > maxLength
         /\ startsWith(toLowerCase(text), toLowerCase(propertyLabel))

\* mutant: the case-insensitive test accepts a label of equal length too
propertyLabelMatchesEqual(propertyLabel, text, maxLength) ==
    \/ Len(propertyLabel) >= maxLength /\ startsWith(text, propertyLabel)
    \/ Len(propertyLabel) >= maxLength
         /\ startsWith(toLowerCase(text), toLowerCase(propertyLabel))

\* the test of the loop of matchFilteringProperty: does a property with this
\* label replace the match found so far
propertyLabelMatches(propertyLabel, text, maxLength) ==
    \/ Len(propertyLabel) >= maxLength /\ startsWith(text, propertyLabel)
    \/ Len(propertyLabel) > maxLength
         /\ startsWith(toLowerCase(text), toLowerCase(propertyLabel))

\* the loop of matchFilteringProperty from property i on; the result is the
\* index of matchedProperty in the list, 0 for null
RECURSIVE matchFilteringPropertyFrom(_, _, _, _, _)
matchFilteringPropertyFrom(properties, text, i, maxLength, matchedProperty) ==
    IF i > Len(properties) THEN matchedProperty
    ELSE LET propertyLabel == properties[i].propertyLabel IN
         IF propertyLabelMatches(propertyLabel, text, maxLength)
         THEN matchFilteringPropertyFrom(properties, text, i + 1, Len(propertyLabel), i)
         ELSE matchFilteringPropertyFrom(properties, text, i + 1, maxLength, matchedProperty)

matchFilteringProperty(properties, text) ==
    matchFilteringPropertyFrom(properties, text, 1, 0, 0)

\* mutant: an operator of equal length replaces the one found before
operatorMatchesEqual(operator, text, maxLength) ==
    /\ Len(OperatorChars(operator)) >= maxLength
    /\ startsWith(text, toLowerCase(OperatorChars(operator)))

\* the test of the loop of matchOperator; text is already lower case
operatorMatches(operator, text, maxLength) ==
    /\ Len(OperatorChars(operator)) > maxLength
    /\ startsWith(text, toLowerCase(OperatorChars(operator)))

\* the loop of matchOperator from operator i on; the result is the index of
\* matchedOperator in the list, 0 for null
RECURSIVE matchOperatorFrom(_, _, _, _, _)
matchOperatorFrom(operators, text, i, maxLength, matchedOperator) ==
    IF i > Len(operators) THEN matchedOperator
    ELSE IF operatorMatches(operators[i], text, maxLength)
         THEN matchOperatorFrom(operators, text, i + 1, Len(OperatorChars(operators[i])), i)
         ELSE matchOperatorFrom(operators, text, i + 1, maxLength, matchedOperator)

matchOperatorIndex(operators, text) ==
    matchOperatorFrom(operators, toLowerCase(text), 1, 0, 0)

matchOperator(operators, text) ==
    LET i == matchOperatorIndex(operators, text)
    IN IF i = 0 THEN NULL ELSE operators[i]

\* mutant: the arguments of startsWith exchanged
matchOperatorPrefixSwapped(operators, text) ==
    IF Len(trim(text)) = 0 THEN <<>>
    ELSE IF \E i \in 1..Len(operators) :
                startsWith(toLowerCase(text), toLowerCase(OperatorChars(operators[i])))
         THEN text
         ELSE NULLSTRING

\* mutant: only the first character of the text is compared
matchOperatorPrefixFirstChar(operators, text) ==
    IF Len(trim(text)) = 0 THEN <<>>
    ELSE IF \E i \in 1..Len(operators) :
                startsWith(toLowerCase(OperatorChars(operators[i])),
                           toLowerCase(SubSeq(text, 1, 1)))
         THEN text
         ELSE NULLSTRING

\* mutant: the trimmed text is compared with the operators
matchOperatorPrefixTrimmed(operators, text) ==
    IF Len(trim(text)) = 0 THEN <<>>
    ELSE IF \E i \in 1..Len(operators) :
                startsWith(toLowerCase(OperatorChars(operators[i])), toLowerCase(trim(text)))
         THEN text
         ELSE NULLSTRING

matchOperatorPrefix(operators, text) ==
    IF Len(trim(text)) = 0 THEN <<>>
    ELSE IF \E i \in 1..Len(operators) :
                startsWith(toLowerCase(OperatorChars(operators[i])), toLowerCase(text))
         THEN text
         ELSE NULLSTRING

\* mutant: every space after the operator is removed
removeOperatorAllSpaces(source, operator) ==
    LET operatorLastIndex == indexOf(source, OperatorChars(operator)) + Len(OperatorChars(operator))
    IN trimStart(slice(source, operatorLastIndex))

removeOperator(source, operator) ==
    LET operatorLastIndex == indexOf(source, OperatorChars(operator)) + Len(OperatorChars(operator))
        textWithoutOperator == slice(source, operatorLastIndex)
    IN IF textWithoutOperator # <<>> /\ textWithoutOperator[1] = " "
       THEN slice(textWithoutOperator, 1)
       ELSE textWithoutOperator

-----------------------------------------------------------------------------
(* parseText *)

\* mutant: the "!" shorthand is offered whatever the configuration
freeTextOperatorsAlwaysBang(freeText) == <<"!">> \o freeText.operators

\* the operators tried on a text that starts with no property label
freeTextOperators(freeText) ==
    IF \E i \in 1..Len(freeText.operators) : freeText.operators[i] = "!:"
    THEN <<"!">> \o freeText.operators
    ELSE freeText.operators

parseText(text, properties, freeText) ==
    LET p == matchFilteringProperty(properties, text) IN
    IF p = 0
    THEN LET operator == IF freeText.disabled THEN NULL
                         ELSE matchOperator(freeTextOperators(freeText), text)
         IN IF operator # NULL
            THEN [step |-> "free-text",
                  operator |-> IF operator = "!" THEN "!:" ELSE operator,
                  value |-> removeOperator(text, operator)]
            ELSE [step |-> "free-text", value |-> text]
    ELSE LET property == properties[p]
             allowedOps == getAllowedOperators(property)
             textWithoutProperty == slice(text, Len(property.propertyLabel))
             operator == matchOperator(allowedOps, trimStart(textWithoutProperty))
             operatorPrefix == matchOperatorPrefix(allowedOps, trimStart(textWithoutProperty))
         IN IF operator # NULL
            THEN [step |-> "property", property |-> property, index |-> p,
                  operator |-> operator,
                  value |-> removeOperator(textWithoutProperty, operator)]
            ELSE IF operatorPrefix # NULLSTRING
            THEN [step |-> "operator", property |-> property, index |-> p,
                  operatorPrefix |-> operatorPrefix]
            ELSE [step |-> "free-text", value |-> text]

-----------------------------------------------------------------------------
(* Inputs *)

Texts == StringsUpTo(MaxTextLen)

\* property definitions: a short label, a longer label that extends it in
\* the other case, a second property with the short label, and operator
\* lists that are not in canonical order or lack the default operator
PropertyDefs ==
    { [key |-> "name",   propertyLabel |-> <<"a">>,
       operators |-> <<"=", "!=", ":", "!:">>, defaultOperator |-> "="],
      [key |-> "status", propertyLabel |-> <<"A", "a">>,
       operators |-> <<"!=">>, defaultOperator |-> "!="],
      [key |-> "size",   propertyLabel |-> <<"A">>,
       operators |-> <<">=", "!:">>, defaultOperator |-> NULL],
      [key |-> "other",  propertyLabel |-> <<"a">>,
       operators |-> <<":">>, defaultOperator |-> ":"] }

PName   == CHOOSE p \in PropertyDefs : p.key = "name"
PStatus == CHOOSE p \in PropertyDefs : p.key = "status"
PSize   == CHOOSE p \in PropertyDefs : p.key = "size"
POther  == CHOOSE p \in PropertyDefs : p.key = "other"

\* the property lists parseText is run on (matchFilteringProperty itself is
\* run on every list of labels, see LabelLists)
PropertyLists ==
    { <<>>, <<PName>>, <<PStatus>>,
      <<PName, PStatus>>, <<PStatus, PName>>, <<POther, PName>>,
      <<PSize, PStatus>>, <<PName, PStatus, PSize>> }

\* free-text configurations: the component's own, the same one disabled,
\* and hosts that drop "!:" or add a further operator
FreeTextConfigs ==
    { [disabled |-> FALSE, operators |-> <<":", "!:">>, defaultOperator |-> ":"],
      [disabled |-> TRUE,  operators |-> <<":", "!:">>, defaultOperator |-> ":"],
      [disabled |-> FALSE, operators |-> <<":">>, defaultOperator |-> ":"],
      [disabled |-> FALSE, operators |-> <<":", "!:", "!=">>, defaultOperator |-> ":"],
      [disabled |-> FALSE, operators |-> <<"!=", ":">>, defaultOperator |-> ":"] }

NoParse == [step |-> "none"]
NoQuery == [tokens |-> <<>>, operation |-> "and"]
NoApiQuery == [filter |-> [and |-> <<>>, or |-> <<>>]]
NoValidation == [valid |-> TRUE]

ParseIdle == /\ freeTextFiltering = [disabled |-> TRUE, operators |-> <<>>, defaultOperator |-> ":"]
             /\ parsedText = NoParse
MatchIdle == allowedOperators = <<>> /\ matched = 0 /\ matchedPrefix = NULLSTRING
ConvIdle  == query = NoQuery /\ apiQuery = NoApiQuery /\ convertedBack = NoQuery
ValidIdle == value = NULLSTRING /\ validation = NoValidation
ActionIdle == filteringOptions = <<>> /\ calls = <<>> /\ emitted = <<>>
FilterIdle == validationError = NULLSTRING /\ submittedText = NULLSTRING
NoSuggestions == [filterText |-> <<>>, options |-> <<>>]
NoOption == [option |-> [value |-> NULLSTRING], group |-> 0, index |-> 0]
SuggestIdle == autosuggestOptions = NoSuggestions /\ selected = NoOption /\ reparsed = NoParse
KeyIdle   == isOpen = FALSE /\ highlightedIndex = -1
UtilIdle  == argument = NULL /\ returned = NULL /\ applied = <<>>
LaterIdle == SuggestIdle /\ KeyIdle /\ UtilIdle
RestIdle  == ValidIdle /\ ActionIdle /\ FilterIdle /\ LaterIdle

-----------------------------------------------------------------------------
(* The classifier run on one input *)

InitParse ==
    /\ pc = "input"
    /\ filteringText \in Texts
    /\ filteringProperties \in PropertyLists
    /\ freeTextFiltering \in FreeTextConfigs
    /\ parsedText = NoParse
    /\ MatchIdle
    /\ ConvIdle
    /\ RestIdle

ParseText ==
    /\ pc = "input"
    /\ parsedText' = parseText(filteringText, filteringProperties, freeTextFiltering)
    /\ pc' = "parseText"
    /\ UNCHANGED <<filteringText, filteringProperties, freeTextFiltering, matchVars, convVars, restVars>>

NextParse == ParseText

SpecParse == InitParse /\ [][NextParse]_vars

-----------------------------------------------------------------------------
(* The matchers run on one input *)

MatchTexts == StringsUpTo(MaxMatchLen)

\* labels in both cases, and longer ones that extend them
Labels == {<<"a">>, <<"A">>, <<"a", "A">>, <<"A", "a">>, <<"a", "a">>}

LabelProperty(label) ==
    [key |-> "k", propertyLabel |-> label, operators |-> <<>>, defaultOperator |-> NULL]

LabelLists == ListsUpTo({LabelProperty(l) : l \in Labels}, MaxProps)

\* operators that extend one another or differ only in case
MatchOperators == {"=", "!=", "!", "a", "A"}

OperatorLists == ListsUpTo(MatchOperators, MaxOps)

InitMatch ==
    /\ pc = "input"
    /\ filteringText \in MatchTexts
    /\ \/ filteringProperties \in LabelLists /\ allowedOperators = <<>>
       \/ filteringProperties = <<>> /\ allowedOperators \in OperatorLists
    /\ matched = 0
    /\ matchedPrefix = NULLSTRING
    /\ ParseIdle
    /\ ConvIdle
    /\ RestIdle

MatchFilteringProperty ==
    /\ pc = "input"
    /\ matched' = matchFilteringProperty(filteringProperties, filteringText)
    /\ pc' = "matchFilteringProperty"
    /\ UNCHANGED <<parseVars, allowedOperators, matchedPrefix, convVars, restVars>>

MatchOperator ==
    /\ pc = "input"
    /\ matched' = matchOperatorIndex(allowedOperators, filteringText)
    /\ pc' = "matchOperator"
    /\ UNCHANGED <<parseVars, allowedOperators, matchedPrefix, convVars, restVars>>

MatchOperatorPrefix ==
    /\ pc = "input"
    /\ matchedPrefix' = matchOperatorPrefix(allowedOperators, filteringText)
    /\ pc' = "matchOperatorPrefix"
    /\ UNCHANGED <<parseVars, allowedOperators, matched, convVars, restVars>>

NextMatch == MatchFilteringProperty \/ MatchOperator \/ MatchOperatorPrefix

SpecMatch == InitMatch /\ [][NextMatch]_vars

-----------------------------------------------------------------------------
(* Query <-> API format *)

operatorToApiMap ==
    ("=" :> "equals") @@ ("!=" :> "does-not-equal") @@
    (":" :> "contains") @@ ("!:" :> "does-not-contain") @@
    ("^" :> "starts-with") @@ ("!^" :> "does-not-start-with") @@
    (">" :> "greater-than") @@ ("<" :> "less-than") @@
    (">=" :> "greater-than-or-equal") @@ ("<=" :> "less-than-or-equal")

\* mutant: the entries of the two comparison operators exchanged
apiToOperatorMapSwapped ==
    ("equals" :> "=") @@ ("does-not-equal" :> "!=") @@
    ("contains" :> ":") @@ ("does-not-contain" :> "!:") @@
    ("starts-with" :> "^") @@ ("does-not-start-with" :> "!^") @@
    ("greater-than" :> "<") @@ ("less-than" :> ">") @@
    ("greater-than-or-equal" :> ">=") @@ ("less-than-or-equal" :> "<=")

apiToOperatorMap ==
    ("equals" :> "=") @@ ("does-not-equal" :> "!=") @@
    ("contains" :> ":") @@ ("does-not-contain" :> "!:") @@
    ("starts-with" :> "^") @@ ("does-not-start-with" :> "!^") @@
    ("greater-than" :> ">") @@ ("less-than" :> "<") @@
    ("greater-than-or-equal" :> ">=") @@ ("less-than-or-equal" :> "<=")

\* the members every object literal inherits, each named by what it is
ObjectPrototype ==
    ("constructor" :> "[Function: Object]") @@ ("toString" :> "[Function: toString]") @@
    ("valueOf" :> "[Function: valueOf]") @@ ("hasOwnProperty" :> "[Function: hasOwnProperty]")

\* map[key]: the map's own entry, else an inherited member, else undefined
lookup(map, key) ==
    IF key \in DOMAIN map THEN map[key]
    ELSE IF key \in DOMAIN ObjectPrototype THEN ObjectPrototype[key]
    ELSE UNDEFINED

operatorToApi(operator) ==
    LET found == lookup(operatorToApiMap, operator)
    IN IF found # UNDEFINED THEN found ELSE operator

apiToOperator(apiOp) ==
    LET found == lookup(apiToOperatorMap, apiOp)
    IN IF found # UNDEFINED THEN found ELSE apiOp

\* an object without fields, {}
EmptyObject == <<>>

\* a destructured field with its default value
FieldOr(object, field, default) ==
    IF field \in DOMAIN object THEN object[field] ELSE default

\* token.propertyKey || null
fieldOf(propertyKey) == IF propertyKey \in {UNDEFINED, NULL} THEN NULL ELSE propertyKey

\* tokens.map(token => ({ field, op, value }))
filterItems(tokens) ==
    [i \in 1..Len(tokens) |->
        [field |-> fieldOf(tokens[i].propertyKey),
         op    |-> operatorToApi(tokens[i].operator),
         value |-> tokens[i].value]]

\* mutant: the items are always placed under 'and'
queryToApiFormatAlwaysAnd(q) ==
    LET tokens == FieldOr(q, "tokens", <<>>)
        operation == FieldOr(q, "operation", "and")
    IN [filter |-> [and |-> filterItems(tokens),
                    or  |-> IF operation = "or" THEN filterItems(tokens) ELSE <<>>]]

queryToApiFormat(q) ==
    LET tokens == FieldOr(q, "tokens", <<>>)
        operation == FieldOr(q, "operation", "and")
    IN [filter |-> [and |-> IF operation = "and" THEN filterItems(tokens) ELSE <<>>,
                    or  |-> IF operation = "or" THEN filterItems(tokens) ELSE <<>>]]

\* mutant: the 'and' array is preferred when both arrays hold entries
apiToQueryFormatAndFirst(api) ==
    LET filter == FieldOr(api, "filter", EmptyObject)
        and == FieldOr(filter, "and", <<>>)
        or == FieldOr(filter, "or", <<>>)
        operation == IF Len(and) > 0 \/ Len(or) = 0 THEN "and" ELSE "or"
        items == IF operation = "or" THEN or ELSE and
    IN [tokens |-> [i \in 1..Len(items) |->
                       [propertyKey |-> items[i].field,
                        operator    |-> apiToOperator(items[i].op),
                        value       |-> items[i].value]],
        operation |-> operation]

apiToQueryFormat(api) ==
    LET filter == FieldOr(api, "filter", EmptyObject)
        and == FieldOr(filter, "and", <<>>)
        or == FieldOr(filter, "or", <<>>)
        operation == IF Len(or) > 0 THEN "or" ELSE "and"
        items == IF operation = "or" THEN or ELSE and
    IN [tokens |-> [i \in 1..Len(items) |->
                       [propertyKey |-> items[i].field,
                        operator    |-> apiToOperator(items[i].op),
                        value       |-> items[i].value]],
        operation |-> operation]

\* tokens: free-text tokens (key undefined as createToken builds them, or
\* null as apiToQueryFormat returns them) and a property token, with each
\* of the ten operators and one symbol outside the table
TokenOperators == Range(operatorOrder) \cup {"~"}

Tokens ==
    {[propertyKey |-> UNDEFINED, operator |-> op, value |-> <<"a">>] : op \in TokenOperators}
    \cup {[propertyKey |-> "status", operator |-> op, value |-> <<"A">>] : op \in TokenOperators}
    \cup {[propertyKey |-> NULL, operator |-> ":", value |-> <<"a">>]}

TokenLists == ListsUpTo(Tokens, MaxTokens)

\* queries with either operation, with one that is neither, and with a
\* field left out
Queries ==
    {[tokens |-> ts, operation |-> o] : ts \in TokenLists, o \in {"and", "or", "xor"}}
    \cup {[tokens |-> ts] : ts \in TokenLists}
    \cup {[operation |-> o] : o \in {"and", "or"}}

ApiEntries ==
    [field : {NULL, "status"}, op : {"equals", "does-not-contain", "~"}, value : {<<"a">>}]

ApiLists == ListsUpTo(ApiEntries, MaxTokens)

\* API queries with any of the two arrays filled, or with a key left out
ApiQueries ==
    {[filter |-> [and |-> a, or |-> o]] : a \in ApiLists, o \in ApiLists}
    \cup {[filter |-> [and |-> a]] : a \in ApiLists}
    \cup {[filter |-> [or |-> o]] : o \in ApiLists}
    \cup {[filter |-> EmptyObject], EmptyObject}

InitConv ==
    /\ pc = "input"
    /\ \/ query \in Queries /\ apiQuery = EmptyObject
       \/ query = NoQuery /\ apiQuery \in ApiQueries
    /\ convertedBack = NoQuery
    /\ filteringText = <<>>
    /\ filteringProperties = <<>>
    /\ ParseIdle
    /\ MatchIdle
    /\ RestIdle

\* the component hands queryToApiFormat(query) to the host ...
QueryToApiFormat ==
    /\ pc = "input"
    /\ apiQuery' = queryToApiFormat(query)
    /\ pc' = "queryToApiFormat"
    /\ UNCHANGED <<parseVars, matchVars, query, convertedBack, restVars>>

\* ... and reads the host's query, its own output included, with apiToQueryFormat
ApiToQueryFormat ==
    /\ pc \in {"input", "queryToApiFormat"}
    /\ convertedBack' = apiToQueryFormat(apiQuery)
    /\ pc' = IF pc = "input" THEN "apiToQueryFormat" ELSE "roundTrip"
    /\ UNCHANGED <<parseVars, matchVars, query, apiQuery, restVars>>

NextConv == QueryToApiFormat \/ ApiToQueryFormat

SpecConv == InitConv /\ [][NextConv]_vars

-----------------------------------------------------------------------------
(* Validators.  A value is a sequence of characters; an error message is a *)
(* sequence of pieces of text, so that a message can quote a piece of the  *)
(* input.                                                                  *)

Digits == {"0", "1", "2", "3", "4", "5", "6", "7", "8", "9"}

digitValue(c) ==
    CASE c = "0" -> 0 [] c = "1" -> 1 [] c = "2" -> 2 [] c = "3" -> 3 [] c = "4" -> 4
      [] c = "5" -> 5 [] c = "6" -> 6 [] c = "7" -> 7 [] c = "8" -> 8 [] c = "9" -> 9

\* \d{lo,hi} anchored at both ends
isDigits(s, lo, hi) == Len(s) >= lo /\ Len(s) <= hi /\ \A i \in 1..Len(s) : s[i] \in Digits

RECURSIVE digitsToNumber(_)
digitsToNumber(s) ==
    IF s = <<>> THEN 0
    ELSE 10 * digitsToNumber(SubSeq(s, 1, Len(s) - 1)) + digitValue(s[Len(s)])

\* the longest run of digits a string starts with
RECURSIVE leadingDigits(_)
leadingDigits(s) ==
    IF s # <<>> /\ Head(s) \in Digits THEN <<Head(s)>> \o leadingDigits(Tail(s)) ELSE <<>>

\* parseInt: white space, an optional sign, then as many digits as there are;
\* NaN when there is no digit there
parseInt(s) ==
    LET t == trimStart(s)
        negative == t # <<>> /\ Head(t) = "-"
        digits == leadingDigits(IF negative THEN Tail(t) ELSE t)
    IN IF digits = <<>> THEN [isNaN |-> TRUE, number |-> 0]
       ELSE [isNaN |-> FALSE,
             number |-> IF negative THEN 0 - digitsToNumber(digits) ELSE digitsToNumber(digits)]

\* String.prototype.split on a one-character separator
RECURSIVE split(_, _)
split(s, separator) ==
    LET i == indexOf(s, <<separator>>)
    IN IF i = -1 THEN <<s>>
       ELSE <<SubSeq(s, 1, i)>> \o split(slice(s, i + 1), separator)

\* String.prototype.includes
includes(s, c) == indexOf(s, <<c>>) # -1

\* /^(\d{1,3})\.(\d{1,3})\.(\d{1,3})\.(\d{1,3})$/ : the four groups, <<>> for no match
ipMatch(trimmed) ==
    LET groups == split(trimmed, ".")
    IN IF Len(groups) = 4 /\ \A i \in 1..4 : isDigits(groups[i], 1, 3) THEN groups ELSE <<>>

\* /^(\d{1,3})\.(\d{1,3})\.(\d{1,3})\.(\d{1,3})\/(\d{1,2})$/ : the five groups
cidrMatch(trimmed) ==
    LET parts == split(trimmed, "/")
    IN IF Len(parts) = 2 /\ ipMatch(parts[1]) # <<>> /\ isDigits(parts[2], 1, 2)
       THEN ipMatch(parts[1]) \o <<parts[2]>>
       ELSE <<>>

\* mutant: a refusal without its message
InvalidWithoutError(error) == [valid |-> FALSE]

Invalid(error) == [valid |-> FALSE, error |-> error]
Valid == [valid |-> TRUE]
Normalized(normalizedValue) == [valid |-> TRUE, normalizedValue |-> normalizedValue]

IPRequired == <<"IP address is required">>
OctetRange == <<"Each octet must be between 0 and 255">>
CidrRange  == <<"CIDR must be between 22 and 32">>
IPFormat   == <<"Invalid IP address format. Use x.x.x.x or x.x.x.x/22-32">>

\* mutant: the lower limit of the suffix is off by one
cidrOutOfRangeFrom21(cidrNum) == cidrNum < 21 \/ cidrNum > 32

cidrOutOfRange(cidrNum) == cidrNum < 22 \/ cidrNum > 32

octetOutOfRange(octet) == octet < 0 \/ octet > 255

\* mutant: the suffix is appended to every valid address
normalizeCidrAppend(trimmed) == trimmed \o <<"/", "3", "2">>

\* the normalized value of an address that has a suffix
normalizeCidr(trimmed) == trimmed

validateIPAddress(v) ==
    IF v = NULLSTRING \/ v = <<>> THEN Invalid(IPRequired)
    ELSE
    LET trimmed == trim(v)
        cidr == cidrMatch(trimmed)
        ip == ipMatch(trimmed)
    IN IF cidr # <<>>
       THEN IF \E i \in 1..4 : octetOutOfRange(digitsToNumber(cidr[i]))
            THEN Invalid(OctetRange)
            ELSE IF cidrOutOfRange(digitsToNumber(cidr[5]))
            THEN Invalid(CidrRange)
            ELSE Normalized(normalizeCidr(trimmed))
       ELSE IF ip # <<>>
       THEN IF \E i \in 1..4 : octetOutOfRange(digitsToNumber(ip[i]))
            THEN Invalid(OctetRange)
            ELSE Normalized(trimmed \o <<"/", "3", "2">>)
       ELSE Invalid(IPFormat)

PortRequired == <<"Port number is required">>
PortRange    == <<"Port must be between 1 and 65535">>
PortsRange   == <<"Ports must be between 1 and 65535">>
RangeOrder   == <<"Range start must be less than end (e.g., 445-500, not 500-445)">>
PortFormat   == <<"Invalid port format. Use: 80, 445-500, or 21, 22, 80, 443">>

\* `Invalid port "${portStr}". Ports must be between 1 and 65535`
InvalidPort(portStr) ==
    <<"Invalid port \"">> \o portStr \o <<"\". Ports must be between 1 and 65535">>

portOutOfRange(port) == port < 1 \/ port > 65535

\* mutant: a range of equal bounds is let through
rangeNotAscendingStrict(start, end) == start > end

rangeNotAscending(start, end) == start >= end

\* /^(\d+)-(\d+)$/ : the two groups, <<>> for no match
rangeMatch(trimmed) ==
    LET groups == split(trimmed, "-")
    IN IF Len(groups) = 2 /\ \A i \in 1..2 :
              groups[i] # <<>> /\ isDigits(groups[i], 1, Len(groups[i]))
       THEN groups ELSE <<>>

\* the loop over the entries of a list: the result at the first entry refused
RECURSIVE validatePortList(_)
validatePortList(ports) ==
    IF ports = <<>> THEN Valid
    ELSE LET portStr == Head(ports)
             port == parseInt(portStr)
         IN IF port.isNaN \/ portOutOfRange(port.number)
            THEN Invalid(InvalidPort(portStr))
            ELSE validatePortList(Tail(ports))

validatePortNumber(v) ==
    IF v = NULLSTRING \/ v = <<>> THEN Invalid(PortRequired)
    ELSE
    LET trimmed == trim(v)
        range == rangeMatch(trimmed)
    IN IF trimmed # <<>> /\ isDigits(trimmed, 1, Len(trimmed))
       THEN IF portOutOfRange(digitsToNumber(trimmed)) THEN Invalid(PortRange) ELSE Valid
       ELSE IF range # <<>>
       THEN LET start == digitsToNumber(range[1])
                end == digitsToNumber(range[2])
            IN IF portOutOfRange(start) \/ portOutOfRange(end) THEN Invalid(PortsRange)
               ELSE IF rangeNotAscending(start, end) THEN Invalid(RangeOrder)
               ELSE Valid
       ELSE IF includes(trimmed, ",")
       THEN validatePortList([i \in 1..Len(split(trimmed, ",")) |-> trim(split(trimmed, ",")[i])])
       ELSE Invalid(PortFormat)

\* the validator a property's validationType selects
validateTokenValue(v, property) ==
    LET validationType == FieldOr(property, "validationType", UNDEFINED)
    IN IF validationType = UNDEFINED THEN Valid
       ELSE IF validationType \in {"ip", "ipAddress"} THEN validateIPAddress(v)
       ELSE IF validationType \in {"port", "portNumber"} THEN validatePortNumber(v)
       ELSE Valid

-----------------------------------------------------------------------------
(* The validators run on one value *)

RECURSIVE join(_, _)
join(list, separator) ==
    IF list = <<>> THEN <<>>
    ELSE IF Len(list) = 1 THEN list[1]
    ELSE list[1] \o separator \o join(Tail(list), separator)

\* octets at and beyond the limits, and one of four digits
OctetTexts == { <<"0">>, <<"2", "5", "5">>, <<"2", "5", "6">>, <<"1", "0", "0", "0">> }

\* suffixes at and beyond the limits, of three digits, and without digits
CidrTexts == { <<"2", "1">>, <<"2", "2">>, <<"3", "2">>, <<"3", "3">>, <<"5">>,
               <<"0", "3", "2">>, <<>> }

\* three to MaxParts parts separated by dots
DottedTexts ==
    {join(parts, <<".">>) : parts \in {l \in ListsUpTo(OctetTexts, MaxParts) : Len(l) >= 3}}

Padded(T) == T \cup {<<" ">> \o t \o <<" ">> : t \in T}

IPValues ==
    Padded(DottedTexts \cup {d \o <<"/">> \o c : d \in DottedTexts, c \in CidrTexts})

\* ports at and beyond the limits, and the bounds of the ranges of the examples
PortTexts == { <<"0">>, <<"1">>, <<"6", "5", "5", "3", "5">>, <<"6", "5", "5", "3", "6">>,
               <<"5", "0", "0">>, <<"4", "4", "5">> }

\* entries of a list: ports, a port after a space, and entries that are not numbers
ListEntries == { <<"0">>, <<"1">>, <<"6", "5", "5", "3", "5">>, <<"6", "5", "5", "3", "6">>,
                 <<" ", "1">>, <<>>, <<"a">>, <<"1", "a">>, <<"1", "-", "5">> }

PortValues ==
    Padded(PortTexts
           \cup {a \o <<"-">> \o b : a \in PortTexts \cup {<<>>}, b \in PortTexts \cup {<<>>}}
           \cup {join(l, <<",">>) : l \in {m \in ListsUpTo(ListEntries, MaxPorts) : Len(m) >= 2}})

\* null, the empty and the blank string, text that is not a number
OtherValues == { NULLSTRING, <<>>, <<" ">>, <<"a">>, <<"a", ".", "a", ".", "a", ".", "a">>,
                 <<"1", "-", "5", "-", "1">> }

ValidatorValues == IPValues \cup PortValues \cup OtherValues

InitValid ==
    /\ pc = "input"
    /\ value \in ValidatorValues
    /\ validation = NoValidation
    /\ ActionIdle
    /\ FilterIdle
    /\ LaterIdle
    /\ filteringText = <<>>
    /\ filteringProperties = <<>>
    /\ ParseIdle
    /\ MatchIdle
    /\ ConvIdle

ValidateIPAddress ==
    /\ pc = "input"
    /\ validation' = validateIPAddress(value)
    /\ pc' = "validateIPAddress"
    /\ UNCHANGED <<parseVars, matchVars, convVars, value, actionVars, filterVars, laterVars>>

ValidatePortNumber ==
    /\ pc = "input"
    /\ validation' = validatePortNumber(value)
    /\ pc' = "validatePortNumber"
    /\ UNCHANGED <<parseVars, matchVars, convVars, value, actionVars, filterVars, laterVars>>

NextValid == ValidateIPAddress \/ ValidatePortNumber

SpecValid == InitValid /\ [][NextValid]_vars

-----------------------------------------------------------------------------
(* Query actions.  A token refers to its property by the property's key,   *)
(* NULL for none; indices are the 0-based indices of the code.             *)

\* mutant: the comparison that ignores case looks at the value only
caseInsensitiveMatchValue(v, option) == toLowerCase(v) = toLowerCase(option.value)

\* value.toLowerCase() === (option.label ?? option.value ?? '').toLowerCase():
\* a label that is present is compared even when it is empty
caseInsensitiveMatch(v, option) ==
    toLowerCase(v) = toLowerCase(IF "label" \in DOMAIN option THEN option.label
                                 ELSE option.value)

\* the loop of matchTokenValue over the options of the token's property
RECURSIVE matchTokenValueFrom(_, _, _, _, _)
matchTokenValueFrom(propertyOptions, resolvedPropertyKey, operator, v, bestValue) ==
    IF propertyOptions = <<>>
    THEN [propertyKey |-> resolvedPropertyKey, operator |-> operator, value |-> bestValue]
    ELSE LET option == Head(propertyOptions)
             hasLabel == "label" \in DOMAIN option /\ option.label # <<>>
         IN IF \/ hasLabel /\ option.label = v
               \/ ~hasLabel /\ option.value = v
            THEN [propertyKey |-> resolvedPropertyKey, operator |-> operator,
                  value |-> option.value]
            ELSE matchTokenValueFrom(Tail(propertyOptions), resolvedPropertyKey, operator, v,
                     IF caseInsensitiveMatch(v, option) THEN option.value ELSE bestValue)

matchTokenValue(token, options) ==
    LET property == FieldOr(token, "property", UNDEFINED)
        propertyKey == FieldOr(token, "propertyKey", UNDEFINED)
        propertyOptions ==
            filterSeq(options, {o \in Range(options) : o.property = property})
        resolvedPropertyKey ==
            IF propertyKey \notin {UNDEFINED, NULL} THEN propertyKey
            ELSE IF property \in {UNDEFINED, NULL} THEN UNDEFINED ELSE property
    IN matchTokenValueFrom(propertyOptions, resolvedPropertyKey, token.operator,
                           token.value, token.value)

\* a token has an operator and no operation; anything else is a token group
RECURSIVE transformToken(_, _)
transformToken(token, options) ==
    IF "operator" \in DOMAIN token /\ "operation" \notin DOMAIN token
    THEN matchTokenValue(token, options)
    ELSE [token EXCEPT !.tokens =
             [i \in 1..Len(token.tokens) |-> transformToken(token.tokens[i], options)]]

RECURSIVE tokenGroupToTokens(_)
\* mutant: everything a group holds is kept, nested groups included
tokenGroupToTokensNested(tokenGroups) ==
    IF tokenGroups = <<>> THEN <<>>
    ELSE LET tokenOrGroup == Head(tokenGroups)
         IN (IF "operator" \in DOMAIN tokenOrGroup THEN <<tokenOrGroup>>
             ELSE IF "tokens" \in DOMAIN tokenOrGroup THEN tokenOrGroup.tokens
             ELSE <<>>)
            \o tokenGroupToTokens(Tail(tokenGroups))

tokenGroupToTokens(tokenGroups) ==
    IF tokenGroups = <<>> THEN <<>>
    ELSE LET tokenOrGroup == Head(tokenGroups)
         IN (IF "operator" \in DOMAIN tokenOrGroup THEN <<tokenOrGroup>>
             ELSE IF "tokens" \in DOMAIN tokenOrGroup
             THEN filterSeq(tokenOrGroup.tokens,
                            {t \in Range(tokenOrGroup.tokens) : "operator" \in DOMAIN t})
             ELSE <<>>)
            \o tokenGroupToTokens(Tail(tokenGroups))

\* setQuery: what onChange is called with
setQuery(newQuery, options) ==
    LET tokens == [i \in 1..Len(newQuery.tokens) |-> transformToken(newQuery.tokens[i], options)]
    IN queryToApiFormat([tokens |-> tokenGroupToTokens(tokens),
                         operation |-> newQuery.operation])

\* the query each action hands to setQuery
addToken(q, token) == [q EXCEPT !.tokens = q.tokens \o <<token>>]

\* mutant: only the first of the new tokens is added
addTokensFirstOnly(q, newTokens) ==
    [q EXCEPT !.tokens = q.tokens \o (IF newTokens = <<>> THEN <<>> ELSE <<Head(newTokens)>>)]

addTokens(q, newTokens) == [q EXCEPT !.tokens = q.tokens \o newTokens]

\* mutant: the index is taken to count from one
updateTokenOneBased(q, updateIndex, updatedToken) ==
    [q EXCEPT !.tokens =
        [i \in 1..Len(q.tokens) |-> IF i = updateIndex THEN updatedToken ELSE q.tokens[i]]]

updateToken(q, updateIndex, updatedToken) ==
    [q EXCEPT !.tokens =
        [i \in 1..Len(q.tokens) |-> IF i - 1 = updateIndex THEN updatedToken ELSE q.tokens[i]]]

\* tokens.filter((_, index) => index !== removeIndex), index counting from `from`
RECURSIVE filterIndexFrom(_, _, _)
filterIndexFrom(tokens, from, removeIndex) ==
    IF tokens = <<>> THEN <<>>
    ELSE (IF from # removeIndex THEN <<Head(tokens)>> ELSE <<>>)
         \o filterIndexFrom(Tail(tokens), from + 1, removeIndex)

\* mutant: the index is taken to count from one
removeTokenOneBased(q, removeIndex) ==
    [q EXCEPT !.tokens = filterIndexFrom(q.tokens, 1, removeIndex)]

removeToken(q, removeIndex) ==
    [q EXCEPT !.tokens = filterIndexFrom(q.tokens, 0, removeIndex)]

removeAllTokens(q) == [q EXCEPT !.tokens = <<>>]

\* mutant: the operation asked for is dropped
updateOperationKept(q, operation) == q

updateOperation(q, operation) == [q EXCEPT !.operation = operation]

\* a free-text token as the tests build it and a property token as the
\* component builds it, whose value is the label of an option
ActionTokens ==
    { [property |-> NULL, operator |-> ":", value |-> <<"a">>],
      [property |-> "status", propertyKey |-> "status", operator |-> "=", value |-> <<"A">>] }

ActionQueries ==
    {[tokens |-> ts, operation |-> o] : ts \in ListsUpTo(ActionTokens, MaxTokens),
                                        o \in {"and", "or"}}

\* the token lists handed to addTokens: none, one, or the two of a nested selection
NewTokenLists == ListsUpTo(ActionTokens, 2)

\* no options, or an option of the property whose label differs from its value
OptionLists ==
    { <<>>, <<[property |-> "status", value |-> <<"a">>, label |-> <<"A">>]>> }

\* indices of the list and one beyond it at either end
Indices == -1..MaxTokens

InitActions ==
    /\ pc = "actions"
    /\ query \in ActionQueries
    /\ filteringOptions \in OptionLists
    /\ calls = <<>>
    /\ emitted = <<>>
    /\ apiQuery = NoApiQuery
    /\ convertedBack = NoQuery
    /\ filteringText = <<>>
    /\ filteringProperties = <<>>
    /\ ParseIdle
    /\ MatchIdle
    /\ ValidIdle
    /\ FilterIdle
    /\ LaterIdle

\* one call: the action's query goes through setQuery to onChange
Call(call, newQuery) ==
    /\ Len(calls) < MaxCalls
    /\ calls' = Append(calls, call)
    /\ emitted' = Append(emitted, setQuery(newQuery, filteringOptions))
    /\ UNCHANGED <<pc, parseVars, matchVars, convVars, validVars, filteringOptions, filterVars,
                   laterVars>>

AddToken ==
    \E token \in ActionTokens :
        Call([action |-> "addToken", token |-> token], addToken(query, token))

AddTokens ==
    \E newTokens \in NewTokenLists :
        Call([action |-> "addTokens", newTokens |-> newTokens], addTokens(query, newTokens))

UpdateToken ==
    \E updateIndex \in Indices, updatedToken \in ActionTokens :
        Call([action |-> "updateToken", index |-> updateIndex, token |-> updatedToken],
             updateToken(query, updateIndex, updatedToken))

RemoveToken ==
    \E removeIndex \in Indices :
        Call([action |-> "removeToken", index |-> removeIndex], removeToken(query, removeIndex))

RemoveAllTokens ==
    Call([action |-> "removeAllTokens"], removeAllTokens(query))

UpdateOperation ==
    \E operation \in {"and", "or"} :
        Call([action |-> "updateOperation", operation |-> operation],
             updateOperation(query, operation))

NextActions ==
    \/ AddToken \/ AddTokens \/ UpdateToken \/ RemoveToken
    \/ RemoveAllTokens \/ UpdateOperation

SpecActions == InitActions /\ [][NextActions]_vars

-----------------------------------------------------------------------------
(* The PropertyFilter component: the input text, the validation error and  *)
(* the host's query; the host stores what onChange hands it (App.jsx).     *)

\* one property definition with the component's defaults applied
internalProperty(property) ==
    [key |-> property.key,
     propertyLabel |-> property.propertyLabel,
     operators |-> FieldOr(property, "operators", <<"=", "!=">>),
     defaultOperator |-> FieldOr(property, "defaultOperator", "="),
     validationType |-> FieldOr(property, "validationType", UNDEFINED)]

internalProperties(properties) ==
    [i \in 1..Len(properties) |-> internalProperty(properties[i])]

\* the component's own free-text configuration
componentFreeTextFiltering(disableFreeTextFiltering) ==
    [disabled |-> disableFreeTextFiltering, operators |-> <<":", "!:">>, defaultOperator |-> ":"]

\* the key of the property a token refers to, NULL when there is none
propertyOfKey(propertyKey, properties) ==
    IF propertyKey \in {NULL, UNDEFINED} THEN NULL
    ELSE IF \E i \in 1..Len(properties) : properties[i].key = propertyKey
    THEN propertyKey ELSE NULL

internalQuery(api, properties) ==
    LET converted == apiToQueryFormat(api)
    IN [operation |-> converted.operation,
        tokens |-> [i \in 1..Len(converted.tokens) |->
                      [propertyKey |-> converted.tokens[i].propertyKey,
                       operator |-> converted.tokens[i].operator,
                       value |-> converted.tokens[i].value,
                       property |-> propertyOfKey(converted.tokens[i].propertyKey, properties)]]]

\* mutant: at the operator stage the property's default operator is used
newTokenOfPropertyDefault(parsed, currentText, freeText) ==
    IF parsed.step = "property"
    THEN [property |-> parsed.property.key, propertyKey |-> parsed.property.key,
          operator |-> parsed.operator, value |-> parsed.value]
    ELSE IF parsed.step = "free-text"
    THEN [property |-> NULL, propertyKey |-> UNDEFINED,
          operator |-> FieldOr(parsed, "operator", freeText.defaultOperator),
          value |-> parsed.value]
    ELSE [property |-> NULL, propertyKey |-> UNDEFINED,
          operator |-> parsed.property.defaultOperator, value |-> currentText]

\* the token createToken builds from the parsed text, before validation
newTokenOf(parsed, currentText, freeText) ==
    IF parsed.step = "property"
    THEN [property |-> parsed.property.key, propertyKey |-> parsed.property.key,
          operator |-> parsed.operator, value |-> parsed.value]
    ELSE IF parsed.step = "free-text"
    THEN [property |-> NULL, propertyKey |-> UNDEFINED,
          operator |-> FieldOr(parsed, "operator", freeText.defaultOperator),
          value |-> parsed.value]
    ELSE [property |-> NULL, propertyKey |-> UNDEFINED,
          operator |-> freeText.defaultOperator, value |-> currentText]

\* mutant: the value as typed is kept
normalizedTokenAsTyped(newToken, result) == newToken

\* the token with the validator's normalized value, when it returned one
normalizedToken(newToken, result) ==
    IF "normalizedValue" \in DOMAIN result /\ result.normalizedValue # <<>>
    THEN [newToken EXCEPT !.value = result.normalizedValue]
    ELSE newToken

\* the host's properties: one validated as an IP address, one as a port,
\* and one without validation that leaves the operators to the defaults
HostProperties ==
    << [key |-> "ip", propertyLabel |-> <<"i">>, operators |-> <<"=", "!=">>,
        defaultOperator |-> "=", validationType |-> "ip"],
       [key |-> "port", propertyLabel |-> <<"p">>, operators |-> <<"=", "!=">>,
        defaultOperator |-> "=", validationType |-> "port"],
       [key |-> "status", propertyLabel |-> <<"s">>] >>

\* the options as the component holds them: one of a property, one of none
HostOptions ==
    << [property |-> "status", value |-> <<"a">>, label |-> <<"A">>],
       [property |-> NULL, value |-> <<"A">>, label |-> <<"a">>] >>

Address == <<"0", ".", "0", ".", "0", ".", "0">>

\* texts that start with a property's label: the label alone or with part
\* of an operator, and values the property's validator accepts or refuses
PropertyTexts ==
    { <<"i">>, <<"i", "!">>, <<"i", "=">>, <<"i", "=", "a">>,
      <<"i", "=">> \o Address,
      <<"i", "=">> \o Address \o <<"/", "2", "2">>,
      <<"i", "=">> \o Address \o <<"/", "2", "1">>,
      <<"p", "=", "0">>, <<"p", " ", "=", " ", "1">>, <<"p", "=", "1", "-", "1">>,
      <<"s">>, <<"s", "=", "A">> }

\* texts without a property label, with and without a free-text operator
FreeTexts ==
    { <<>>, <<" ">>, <<"a">>, <<":", "a">>, <<"!", ":", "a">>, <<"!", "a">>, <<"=", "a">> }

\* the texts handed to createToken by a selected option
SubmitTexts == FreeTexts \cup PropertyTexts

\* the texts typed into the input
TypedTexts ==
    { <<>>, <<"a", " ">>, <<"i", "!">>, <<"i", "=", "a">>, <<"i", "=">> \o Address }

\* the query the host starts from: App.jsx's initial state, or an empty filter
InitialQueries == { [tokens |-> <<>>, operation |-> "and"], NoApiQuery }

InitFilter ==
    /\ pc = "render"
    /\ filteringText = <<>>
    /\ filteringProperties = internalProperties(HostProperties)
    /\ \E disableFreeTextFiltering \in BOOLEAN :
          freeTextFiltering = componentFreeTextFiltering(disableFreeTextFiltering)
    /\ filteringOptions = HostOptions
    /\ apiQuery \in InitialQueries
    /\ emitted = <<>>
    /\ validationError = NULLSTRING
    /\ submittedText = NULLSTRING
    /\ parsedText = NoParse
    /\ value = NULLSTRING
    /\ validation = NoValidation
    /\ calls = <<>>
    /\ query = NoQuery
    /\ convertedBack = NoQuery
    /\ MatchIdle
    /\ LaterIdle

\* createToken(currentText), with the host's onChange storing the new query
createToken(currentText) ==
    \E parsed \in {parseText(currentText, filteringProperties, freeTextFiltering)} :
    \E newToken \in {newTokenOf(parsed, currentText, freeTextFiltering)} :
    \E result \in {IF parsed.step = "property"
                    THEN validateTokenValue(newToken.value, parsed.property)
                    ELSE Valid} :
       /\ Len(emitted) < MaxCalls
       /\ pc' = "createToken"
       /\ submittedText' = currentText
       /\ parsedText' = parsed
       /\ IF (parsed.step # "property" /\ freeTextFiltering.disabled)
             \/ trim(newToken.value) = <<>>
          THEN /\ value' = NULLSTRING
               /\ validation' = NoValidation
               /\ UNCHANGED <<filteringText, validationError, apiQuery, emitted>>
          ELSE /\ value' = IF parsed.step = "property" THEN newToken.value ELSE NULLSTRING
               /\ validation' = result
               /\ IF ~result.valid
                  THEN /\ validationError' = result.error
                       /\ UNCHANGED <<filteringText, apiQuery, emitted>>
                  ELSE /\ validationError' = NULLSTRING
                       /\ apiQuery' =
                              setQuery(addToken(internalQuery(apiQuery, filteringProperties),
                                                normalizedToken(newToken, result)),
                                       filteringOptions)
                       /\ emitted' = Append(emitted, apiQuery')
                       /\ filteringText' = <<>>
       /\ UNCHANGED <<filteringProperties, freeTextFiltering, matchVars, query, convertedBack,
                      filteringOptions, calls, suggestVars, utilVars>>

\* typing, or selecting a property or operator suggestion, replaces the text
ChangeText ==
    \E text \in TypedTexts :
        /\ filteringText' = text
        /\ validationError' = NULLSTRING
        /\ pc' = "changeText"
        /\ UNCHANGED <<filteringProperties, freeTextFiltering, parsedText, matchVars, convVars,
                       validVars, actionVars, submittedText, laterVars>>

\* Enter with no option highlighted submits the trimmed text
PressEnter ==
    /\ trim(filteringText) # <<>>
    /\ createToken(trim(filteringText))
    /\ UNCHANGED keyVars

\* a value suggestion or the 'use entered text' option submits its text
SelectOption ==
    \E text \in SubmitTexts :
        /\ text # <<>>
        /\ createToken(text)
        /\ UNCHANGED keyVars

NextFilter == ChangeText \/ PressEnter \/ SelectOption

SpecFilter == InitFilter /\ [][NextFilter]_vars

-----------------------------------------------------------------------------
(* Suggestions.  An option refers to its property by the property object   *)
(* itself and has no property field when the reference is null; the group  *)
(* labels are the default i18n strings; a nested configuration is          *)
(* represented by its group label.  Fields that are only displayed         *)
(* (description, originalOption) are left out.                             *)

groupPropertiesText == "Properties"
groupValuesText     == "Values"
operatorsText       == "Operators"

\* mutant: the operator is left out
labelPrefixOfLabel(propertyLabel, operator) == propertyLabel

\* `${propertyLabel} ${operator}`
labelPrefixOf(propertyLabel, operator) == propertyLabel \o <<" ">> \o OperatorChars(operator)

\* opt.label || opt.value
labelOrValue(opt) ==
    IF "label" \in DOMAIN opt /\ opt.label # <<>> THEN opt.label ELSE opt.value

getPropertySuggestions(properties, groupLabel) ==
    LET visibleProperties ==
            filterSeq(properties, {p \in Range(properties) : ~FieldOr(p, "hidden", FALSE)})
        options == [i \in 1..Len(visibleProperties) |->
                      [value |-> visibleProperties[i].propertyLabel,
                       label |-> visibleProperties[i].propertyLabel,
                       keepOpenOnSelect |-> TRUE]]
    IN IF Len(options) > 0 THEN <<[label |-> groupLabel, options |-> options]>> ELSE <<>>

\* mutant: the requested operator is used whether the property allows it or not
chosenOperatorRequested(allowedOps, operator) == operator

\* the operator of a value suggestion: the requested one if allowed, else '='
chosenOperator(allowedOps, operator) ==
    IF operator \in Range(allowedOps) THEN operator ELSE "="

\* the forEach of getAllValueSuggestions
RECURSIVE valueSuggestionsFrom(_, _)
valueSuggestionsFrom(options, operator) ==
    IF options = <<>> THEN <<>>
    ELSE LET filteringOption == Head(options)
         IN (IF "property" \notin DOMAIN filteringOption THEN <<>>
             ELSE LET property == filteringOption.property
                      allowedOps == getAllowedOperators(property)
                  IN IF operator \notin Range(allowedOps) /\ "=" \notin Range(allowedOps)
                     THEN <<>>
                     ELSE LET op == chosenOperator(allowedOps, operator)
                          IN << [value |-> labelPrefixOf(property.propertyLabel, op)
                                           \o <<" ">> \o filteringOption.value,
                                 label |-> labelOrValue(filteringOption),
                                 labelPrefix |-> labelPrefixOf(property.propertyLabel, op)] >>)
            \o valueSuggestionsFrom(Tail(options), operator)

\* the operator parameter defaults to '=' when the parse has none
getAllValueSuggestions(options, requestedOperator, groupLabel) ==
    LET operator == IF requestedOperator = UNDEFINED THEN "=" ELSE requestedOperator
        suggestions == valueSuggestionsFrom(options, operator)
    IN IF Len(suggestions) > 0 THEN <<[label |-> groupLabel, options |-> suggestions]>>
       ELSE <<>>

\* the suggestion of one option of the parsed property
propertyValueSuggestion(opt, propertyLabel, operator) ==
    [value |-> labelPrefixOf(propertyLabel, operator) \o <<" ">> \o opt.value,
     label |-> labelOrValue(opt),
     labelPrefix |-> labelPrefixOf(propertyLabel, operator),
     nestedOptions |-> FieldOr(opt, "nestedOptions", UNDEFINED),
     keepOpenOnSelect |-> "nestedOptions" \in DOMAIN opt]

\* the suggestion of one operator of the parsed property; note the trailing space
operatorSuggestion(propertyLabel, op) ==
    [value |-> labelPrefixOf(propertyLabel, op) \o <<" ">>,
     label |-> labelPrefixOf(propertyLabel, op),
     keepOpenOnSelect |-> TRUE]

getAutosuggestOptions(parsed, properties, options) ==
    CASE parsed.step = "property" ->
            LET propertyOptions ==
                    filterSeq(options, {o \in Range(options) :
                                  "property" \in DOMAIN o /\ o.property = parsed.property})
            IN [filterText |-> parsed.value,
                options |->
                  << [label |-> FieldOr(parsed.property, "groupValuesLabel", groupValuesText),
                      options |-> [i \in 1..Len(propertyOptions) |->
                                     propertyValueSuggestion(propertyOptions[i],
                                         parsed.property.propertyLabel, parsed.operator)]] >>]
      [] parsed.step = "operator" ->
            LET allowedOps == getAllowedOperators(parsed.property)
            IN [filterText |-> parsed.property.propertyLabel \o <<" ">> \o parsed.operatorPrefix,
                options |->
                  getPropertySuggestions(properties, groupPropertiesText)
                  \o << [label |-> operatorsText,
                         options |-> [i \in 1..Len(allowedOps) |->
                                        operatorSuggestion(parsed.property.propertyLabel,
                                                           allowedOps[i])]] >>]
      [] parsed.step = "free-text" ->
            LET needsValueSuggestions == parsed.value # <<>>
                needsPropertySuggestions == FieldOr(parsed, "operator", UNDEFINED) # "!:"
            IN [filterText |-> parsed.value,
                options |->
                  (IF needsPropertySuggestions
                   THEN getPropertySuggestions(properties, groupPropertiesText) ELSE <<>>)
                  \o (IF needsValueSuggestions
                      THEN getAllValueSuggestions(options, FieldOr(parsed, "operator", UNDEFINED),
                                                  groupValuesText)
                      ELSE <<>>)]
      [] OTHER -> NoSuggestions

-----------------------------------------------------------------------------
(* The suggestions of one input, and the selection of one of them *)

\* a visible property, a hidden one, one that allows no '=', and one with
\* the label of the first
StatusProperty ==
    [key |-> "status", propertyLabel |-> <<"s">>, operators |-> <<"=", "!=">>,
     defaultOperator |-> "="]
HiddenProperty ==
    [key |-> "types-and-codes", propertyLabel |-> <<"t">>, operators |-> <<"=", "!=">>,
     defaultOperator |-> "=", hidden |-> TRUE]
ContainsProperty ==
    [key |-> "name", propertyLabel |-> <<"n">>, operators |-> <<":", "!:">>,
     defaultOperator |-> ":"]
TwinProperty ==
    [key |-> "state", propertyLabel |-> <<"s">>, operators |-> <<"=", ":">>,
     defaultOperator |-> "="]

SuggestPropertyLists ==
    { <<>>, <<StatusProperty>>, <<HiddenProperty>>,
      <<StatusProperty, HiddenProperty>>, <<StatusProperty, ContainsProperty>>,
      <<ContainsProperty, HiddenProperty>>, <<StatusProperty, TwinProperty>>,
      <<TwinProperty, StatusProperty>> }

\* options with and without a label, with a value that starts with a space
\* and goes on like an operator, with a nested configuration, of each
\* property and of none
SuggestOptions ==
    { [property |-> StatusProperty, value |-> <<"a">>, label |-> <<"A">>],
      [property |-> StatusProperty, value |-> <<"b">>],
      [property |-> StatusProperty, value |-> <<" ", "=">>],
      [property |-> StatusProperty, value |-> <<"i">>, nestedOptions |-> "ICMP Types"],
      [property |-> HiddenProperty, value |-> <<"e">>],
      [property |-> ContainsProperty, value |-> <<"c">>],
      [property |-> TwinProperty, value |-> <<"w">>],
      [value |-> <<"x">>] }

\* the option lists over a property list: an option's property is one of
\* the list, as internalOptions finds it there
SuggestOptionLists(properties) ==
    {options \in ListsUpTo(SuggestOptions, MaxOptions) :
        \A o \in Range(options) : "property" \in DOMAIN o => o.property \in Range(properties)}

\* texts of every stage for each of the labels
SuggestTexts ==
    { <<>>, <<"a">>, <<":", "a">>, <<"!", ":", "a">>, <<"!", "a">>, <<"x">>,
      <<"s">>, <<"s", " ">>, <<"s", " ", "!">>, <<"s", "=">>, <<"s", " ", "=", " ", "a">>,
      <<"s", "!", "=", "b">>,
      <<"t">>, <<"t", " ", "=">>, <<"t", " ", "=", " ", "e">>,
      <<"n">>, <<"n", ":">>, <<"n", " ", "!", ":", " ", "c">> }

InitSuggest ==
    /\ pc = "input"
    /\ filteringText \in SuggestTexts
    /\ filteringProperties \in SuggestPropertyLists
    /\ filteringOptions \in SuggestOptionLists(filteringProperties)
    /\ \E disableFreeTextFiltering \in BOOLEAN :
          freeTextFiltering = componentFreeTextFiltering(disableFreeTextFiltering)
    /\ parsedText = NoParse
    /\ calls = <<>>
    /\ emitted = <<>>
    /\ MatchIdle
    /\ ConvIdle
    /\ ValidIdle
    /\ FilterIdle
    /\ LaterIdle

\* one render: the text is parsed and the suggestions are built from the parse
GetAutosuggestOptions ==
    /\ pc = "input"
    /\ parsedText' = parseText(filteringText, filteringProperties, freeTextFiltering)
    /\ autosuggestOptions' =
           getAutosuggestOptions(parsedText', filteringProperties, filteringOptions)
    /\ pc' = "getAutosuggestOptions"
    /\ UNCHANGED <<filteringText, filteringProperties, freeTextFiltering, matchVars, convVars,
                   validVars, actionVars, filterVars, selected, reparsed, keyVars, utilVars>>

\* handleOptionSelect on one of the suggestions shown: a suggestion that
\* keeps the dropdown open becomes the text, any other one is handed to
\* createToken, which parses its value
HandleOptionSelect ==
    /\ pc = "getAutosuggestOptions"
    /\ \E g \in 1..Len(autosuggestOptions.options) :
       \E i \in 1..Len(autosuggestOptions.options[g].options) :
       \E option \in {autosuggestOptions.options[g].options[i]} :
          /\ option.value # <<>>
          /\ selected' = [option |-> option, group |-> g, index |-> i]
          /\ IF FieldOr(option, "keepOpenOnSelect", FALSE)
             THEN /\ filteringText' = option.value
                  /\ reparsed' = NoParse
                  /\ pc' = "input"
             ELSE /\ reparsed' = parseText(option.value, filteringProperties, freeTextFiltering)
                  /\ pc' = "handleOptionSelect"
                  /\ UNCHANGED filteringText
    /\ UNCHANGED <<filteringProperties, freeTextFiltering, parsedText, matchVars, convVars,
                   validVars, actionVars, filterVars, autosuggestOptions, keyVars, utilVars>>

NextSuggest == GetAutosuggestOptions \/ HandleOptionSelect

SpecSuggest == InitSuggest /\ [][NextSuggest]_vars

-----------------------------------------------------------------------------
(* The utility functions run alone on one argument.  The two operator      *)
(* conversions can follow one another, each applied to what the one before *)
(* returned.                                                               *)

\* a token of the property "status" with each typed value, and one of no property
UtilTokens ==
    {[property |-> "status", propertyKey |-> "status", operator |-> "=", value |-> v] :
        v \in {<<"a">>, <<"A">>, <<"b">>, <<>>}}
    \cup {[property |-> NULL, operator |-> ":", value |-> <<"a">>]}

\* options of the property with a label in either case, without a label,
\* and options of another property and of none
UtilOptions ==
    { [property |-> "status", value |-> <<"1">>, label |-> <<"a">>],
      [property |-> "status", value |-> <<"2">>, label |-> <<"A">>],
      [property |-> "status", value |-> <<"a">>],
      [property |-> "status", value |-> <<"A">>],
      [property |-> "other",  value |-> <<"3">>, label |-> <<"a">>],
      [property |-> NULL,     value |-> <<"4">>, label |-> <<"A">>] }

SimpleTokens ==
    { [propertyKey |-> "status", operator |-> "=", value |-> <<"a">>],
      [propertyKey |-> "name", operator |-> ":", value |-> <<"b">>] }

\* a simple token, groups of simple tokens under either operation, a group
\* that holds a group, an empty group, and an entry that is neither
TokensOrGroups ==
    SimpleTokens
    \cup {[tokens |-> ts, operation |-> o] :
              ts \in {<<>>} \cup {<<t>> : t \in SimpleTokens}, o \in {"and", "or"}}
    \cup { [tokens |-> << [propertyKey |-> "status", operator |-> "=", value |-> <<"a">>],
                          [tokens |-> << [propertyKey |-> "name", operator |-> ":",
                                          value |-> <<"b">>] >>,
                           operation |-> "and"] >>,
            operation |-> "or"],
           [operation |-> "and"] }

\* properties with every short list of operators, canonical or not, in
\* every order, and a default operator or none
UtilProperties ==
    {[key |-> "status", propertyLabel |-> <<"s">>, operators |-> ops, defaultOperator |-> def] :
        ops \in ListsUpTo(Range(operatorOrder) \cup {"~"}, MaxOps),
        def \in {NULL, "=", "!:", ">"}}

\* the ten symbols, the ten API names, and strings of neither table
OperatorTexts ==
    DOMAIN operatorToApiMap \cup DOMAIN apiToOperatorMap
    \cup {"unknown", "~", "", "constructor", "toString"}

UtilArguments ==
    {[fn |-> "matchTokenValue", token |-> t, options |-> os] :
        t \in UtilTokens, os \in ListsUpTo(UtilOptions, MaxOptions)}
    \cup {[fn |-> "tokenGroupToTokens", tokenGroups |-> gs] :
             gs \in ListsUpTo(TokensOrGroups, MaxTokens)}
    \cup {[fn |-> "getAllowedOperators", property |-> p] : p \in UtilProperties}
    \cup {[fn |-> "operator", operator |-> op] : op \in OperatorTexts}

InitUtils ==
    /\ pc = "input"
    /\ argument \in UtilArguments
    /\ returned = NULL
    /\ applied = <<>>
    /\ filteringText = <<>>
    /\ filteringProperties = <<>>
    /\ ParseIdle
    /\ MatchIdle
    /\ ConvIdle
    /\ ValidIdle
    /\ ActionIdle
    /\ FilterIdle
    /\ SuggestIdle
    /\ KeyIdle

\* one call of fn with the given result
Return(fn, value_) ==
    /\ returned' = value_
    /\ applied' = Append(applied, fn)
    /\ pc' = fn
    /\ UNCHANGED <<parseVars, matchVars, convVars, validVars, actionVars, filterVars,
                   suggestVars, keyVars, argument>>

MatchTokenValue ==
    /\ pc = "input"
    /\ argument.fn = "matchTokenValue"
    /\ Return("matchTokenValue", matchTokenValue(argument.token, argument.options))

TokenGroupToTokens ==
    /\ pc = "input"
    /\ argument.fn = "tokenGroupToTokens"
    /\ Return("tokenGroupToTokens", tokenGroupToTokens(argument.tokenGroups))

GetAllowedOperators ==
    /\ pc = "input"
    /\ argument.fn = "getAllowedOperators"
    /\ Return("getAllowedOperators", getAllowedOperators(argument.property))

\* the string the next conversion is applied to
Current == IF applied = <<>> THEN argument.operator ELSE returned

OperatorToApi ==
    /\ argument.fn = "operator"
    /\ Len(applied) < MaxCalls
    /\ Return("operatorToApi", operatorToApi(Current))

ApiToOperator ==
    /\ argument.fn = "operator"
    /\ Len(applied) < MaxCalls
    /\ Return("apiToOperator", apiToOperator(Current))

NextUtils ==
    \/ MatchTokenValue \/ TokenGroupToTokens \/ GetAllowedOperators
    \/ OperatorToApi \/ ApiToOperator

SpecUtils == InitUtils /\ [][NextUtils]_vars

-----------------------------------------------------------------------------
(* The FilterAutosuggest component inside PropertyFilter: the dropdown and *)
(* its highlighted option, driven by the keyboard.  The options shown are  *)
(* computed from the text on every render.                                 *)

\* the host's properties and one more, so that the property list is longer
\* than any property's operator list
KeyProperties ==
    << [key |-> "name", propertyLabel |-> <<"n">>, operators |-> <<"=", "!=", ":">>,
        defaultOperator |-> "="] >> \o HostProperties

\* an option as the suggestion builder reads it: the property itself in
\* place of its key, no property when the key names none
internalOption(option, properties) ==
    LET base == [f \in DOMAIN option \ {"property"} |-> option[f]]
    IN IF \E i \in 1..Len(properties) : properties[i].key = option.property
       THEN [f \in DOMAIN base \cup {"property"} |->
               IF f = "property"
               THEN properties[CHOOSE i \in 1..Len(properties) :
                                   properties[i].key = option.property]
               ELSE base[f]]
       ELSE base

internalOptions(options, properties) ==
    [i \in 1..Len(options) |-> internalOption(options[i], properties)]

\* whether a suggestion passes the dropdown's text filter
optionIncludes(opt, filterText) ==
    LET searchText == toLowerCase(filterText)
    IN \/ indexOf(toLowerCase(opt.label), searchText) # -1
       \/ indexOf(toLowerCase(opt.value), searchText) # -1

\* the groups with the suggestions that contain the filter text; groups left
\* empty are dropped
filteredOptions(options, filterText) ==
    IF filterText = <<>> THEN options
    ELSE LET narrowed ==
                 [g \in 1..Len(options) |->
                    [label |-> options[g].label,
                     options |-> filterSeq(options[g].options,
                                     {opt \in Range(options[g].options) :
                                          optionIncludes(opt, filterText)})]]
         IN filterSeq(narrowed, {group \in Range(narrowed) : Len(group.options) > 0})

\* the suggestions of all groups in one list, as handleKeyDown walks them
RECURSIVE flatOptionsOf(_)
flatOptionsOf(groups) ==
    IF groups = <<>> THEN <<>>
    ELSE Head(groups).options \o flatOptionsOf(Tail(groups))

\* the flat list of suggestions the dropdown shows for a text
flatOptionsFor(text) ==
    LET suggestions ==
            getAutosuggestOptions(parseText(text, filteringProperties, freeTextFiltering),
                                  filteringProperties,
                                  internalOptions(filteringOptions, filteringProperties))
    IN flatOptionsOf(filteredOptions(suggestions.options, suggestions.filterText))

flatOptions == flatOptionsFor(filteringText)

\* prev < flatOptions.length - 1 ? prev + 1 : 0
arrowDown(prev, length) == IF prev < length - 1 THEN prev + 1 ELSE 0

\* prev > 0 ? prev - 1 : flatOptions.length - 1
arrowUp(prev, length) == IF prev > 0 THEN prev - 1 ELSE length - 1

\* the texts typed into the input: a value, property labels with and without
\* an operator and a value, and a text that matches nothing
KeyTexts ==
    { <<>>, <<"a">>, <<"s">>, <<"s", "=">>, <<"s", "=", "a">>, <<"i", "=", "a">>, <<"z">> }

InitKeys ==
    /\ pc = "mount"
    /\ filteringText = <<>>
    /\ isOpen = FALSE
    /\ highlightedIndex = -1
    /\ filteringProperties = internalProperties(KeyProperties)
    /\ freeTextFiltering = componentFreeTextFiltering(FALSE)
    /\ filteringOptions = HostOptions
    /\ apiQuery = NoApiQuery
    /\ emitted = <<>>
    /\ validationError = NULLSTRING
    /\ submittedText = NULLSTRING
    /\ parsedText = NoParse
    /\ value = NULLSTRING
    /\ validation = NoValidation
    /\ calls = <<>>
    /\ query = NoQuery
    /\ convertedBack = NoQuery
    /\ MatchIdle
    /\ SuggestIdle
    /\ UtilIdle

\* what no key handler touches
keyFrame == <<filteringProperties, freeTextFiltering, matchVars, query, convertedBack,
              filteringOptions, calls, suggestVars, utilVars>>

\* what only createToken touches
tokenFrame == <<parsedText, apiQuery, emitted, submittedText, value, validation>>

\* the input gets the focus
HandleFocus ==
    /\ isOpen' = TRUE
    /\ pc' = "handleFocus"
    /\ UNCHANGED <<filteringText, highlightedIndex, validationError, tokenFrame, keyFrame>>

\* a mouse press outside the input and the dropdown
HandleClickOutside ==
    /\ isOpen' = FALSE
    /\ pc' = "handleClickOutside"
    /\ UNCHANGED <<filteringText, highlightedIndex, validationError, tokenFrame, keyFrame>>

\* typing: the parent takes the text and clears the validation error
HandleInputChange ==
    \E newValue \in KeyTexts :
        /\ filteringText' = newValue
        /\ validationError' = NULLSTRING
        /\ isOpen' = TRUE
        /\ highlightedIndex' = -1
        /\ pc' = "handleInputChange"
        /\ UNCHANGED <<tokenFrame, keyFrame>>

ArrowDown ==
    /\ isOpen' = TRUE
    /\ highlightedIndex' = arrowDown(highlightedIndex, Len(flatOptions))
    /\ pc' = "ArrowDown"
    /\ UNCHANGED <<filteringText, validationError, tokenFrame, keyFrame>>

ArrowUp ==
    /\ highlightedIndex' = arrowUp(highlightedIndex, Len(flatOptions))
    /\ pc' = "ArrowUp"
    /\ UNCHANGED <<filteringText, isOpen, validationError, tokenFrame, keyFrame>>

\* handleOptionClick with the parent's onChange and handleOptionSelect: a
\* suggestion that keeps the dropdown open becomes the text, any other one
\* is handed to createToken and the dropdown closes
handleOptionClick(option) ==
    IF FieldOr(option, "keepOpenOnSelect", FALSE)
    THEN /\ filteringText' = option.value
         /\ validationError' = NULLSTRING
         /\ pc' = "handleOptionClick"
         /\ UNCHANGED <<isOpen, highlightedIndex, tokenFrame, keyFrame>>
    ELSE /\ isOpen' = FALSE
         /\ UNCHANGED highlightedIndex
         /\ IF option.value = <<>>
            THEN /\ pc' = "handleOptionClick"
                 /\ UNCHANGED <<filteringText, validationError, tokenFrame, keyFrame>>
            ELSE createToken(option.value)

\* Enter selects the highlighted suggestion if there is one, and submits the
\* trimmed text otherwise
Enter ==
    \E flat \in {flatOptions} :
       IF highlightedIndex >= 0 /\ highlightedIndex < Len(flat)
       THEN handleOptionClick(flat[highlightedIndex + 1])
       ELSE IF trim(filteringText) # <<>>
       THEN /\ createToken(trim(filteringText))
            /\ isOpen' = FALSE
            /\ UNCHANGED highlightedIndex
       ELSE /\ pc' = "Enter"
            /\ UNCHANGED <<filteringText, isOpen, highlightedIndex, validationError,
                           tokenFrame, keyFrame>>

Escape ==
    /\ isOpen' = FALSE
    /\ highlightedIndex' = -1
    /\ pc' = "Escape"
    /\ UNCHANGED <<filteringText, validationError, tokenFrame, keyFrame>>

Tab ==
    /\ isOpen' = FALSE
    /\ pc' = "Tab"
    /\ UNCHANGED <<filteringText, highlightedIndex, validationError, tokenFrame, keyFrame>>

NextKeys ==
    \/ HandleFocus
    \/ HandleClickOutside
    \/ HandleInputChange
    \/ ArrowDown
    \/ ArrowUp
    \/ Enter
    \/ Escape
    \/ Tab

SpecKeys == InitKeys /\ [][NextKeys]_vars

-----------------------------------------------------------------------------
(* The query actions inside PropertyFilter: the host stores the API query  *)
(* that onChange hands it and passes it back as the query prop, so every   *)
(* action starts from the previous action's result read back with          *)
(* apiToQueryFormat.  A new actions object is made for every query.        *)

\* the tokens the host's query holds at the start
LoopTokens ==
    { [propertyKey |-> UNDEFINED, operator |-> ":", value |-> <<"a">>],
      [propertyKey |-> "status", operator |-> "=", value |-> <<"a">>],
      [propertyKey |-> "status", operator |-> "=", value |-> <<"A">>] }

\* the API queries the host starts from: what queryToApiFormat makes of a
\* query with either operation
LoopApiQueries ==
    {queryToApiFormat([tokens |-> ts, operation |-> o]) :
         ts \in ListsUpTo(LoopTokens, MaxTokens), o \in {"and", "or"}}

\* no options; one option whose label differs from its value; two options
\* where the label of each is the value of the other
LoopOptionLists ==
    { <<>>,
      <<[property |-> "status", value |-> <<"a">>, label |-> <<"A">>]>>,
      <<[property |-> "status", value |-> <<"a">>, label |-> <<"A">>],
        [property |-> "status", value |-> <<"A">>, label |-> <<"a">>]>> }

InitLoop ==
    /\ pc = "actions"
    /\ apiQuery \in LoopApiQueries
    /\ filteringProperties = internalProperties(HostProperties)
    /\ filteringOptions \in LoopOptionLists
    /\ query = NoQuery
    /\ calls = <<>>
    /\ emitted = <<>>
    /\ convertedBack = NoQuery
    /\ filteringText = <<>>
    /\ freeTextFiltering = componentFreeTextFiltering(FALSE)
    /\ parsedText = NoParse
    /\ MatchIdle
    /\ ValidIdle
    /\ FilterIdle
    /\ LaterIdle

\* the query prop as the actions object of this render sees it
currentQuery == internalQuery(apiQuery, filteringProperties)

\* one call on the actions object of this render: the action's query goes
\* through setQuery to onChange, and the host stores what it is handed.
\* query is the query the call started from, calls the call, and emitted
\* the last two API queries handed to onChange.
CallBack(call, newQuery) ==
    /\ Len(newQuery.tokens) <= MaxTokens
    /\ query' = currentQuery
    /\ calls' = <<call>>
    /\ apiQuery' = setQuery(newQuery, filteringOptions)
    /\ emitted' = (IF emitted = <<>> THEN <<>> ELSE <<emitted[Len(emitted)]>>) \o <<apiQuery'>>
    /\ UNCHANGED <<pc, parseVars, matchVars, convertedBack, validVars, filteringOptions,
                   filterVars, laterVars>>

LoopAddToken ==
    \E token \in ActionTokens :
        CallBack([action |-> "addToken", token |-> token], addToken(currentQuery, token))

LoopAddTokens ==
    \E newTokens \in NewTokenLists :
        CallBack([action |-> "addTokens", newTokens |-> newTokens],
                 addTokens(currentQuery, newTokens))

LoopUpdateToken ==
    \E updateIndex \in Indices, updatedToken \in ActionTokens :
        CallBack([action |-> "updateToken", index |-> updateIndex, token |-> updatedToken],
                 updateToken(currentQuery, updateIndex, updatedToken))

LoopRemoveToken ==
    \E removeIndex \in Indices :
        CallBack([action |-> "removeToken", index |-> removeIndex],
                 removeToken(currentQuery, removeIndex))

LoopRemoveAllTokens ==
    CallBack([action |-> "removeAllTokens"], removeAllTokens(currentQuery))

LoopUpdateOperation ==
    \E operation \in {"and", "or"} :
        CallBack([action |-> "updateOperation", operation |-> operation],
                 updateOperation(currentQuery, operation))

NextLoop ==
    \/ LoopAddToken \/ LoopAddTokens \/ LoopUpdateToken \/ LoopRemoveToken
    \/ LoopRemoveAllTokens \/ LoopUpdateOperation

SpecLoop == InitLoop /\ [][NextLoop]_vars

-----------------------------------------------------------------------------
(* Vocabulary of the properties, stated without the code's helpers *)

IsPrefix(p, s) == Len(p) <= Len(s) /\ \A i \in 1..Len(p) : s[i] = p[i]

SameLetter(c, d) == c = d \/ {c, d} = {"a", "A"}

IsPrefixCI(p, s) == Len(p) <= Len(s) /\ \A i \in 1..Len(p) : SameLetter(s[i], p[i])

Drop(s, n) == [i \in 1..(Len(s) - n) |-> s[i + n]]

RECURSIVE DropSpaces(_)
DropSpaces(s) == IF s # <<>> /\ s[1] = " " THEN DropSpaces(Drop(s, 1)) ELSE s

DropOneSpace(s) == IF s # <<>> /\ s[1] = " " THEN Drop(s, 1) ELSE s

Canonical == {"=", "!=", ":", "!:", "^", "!^", ">=", "<=", "<", ">"}

\* the operators a property allows, as a set
AllowedSet(property) ==
    {op \in Canonical :
        \/ op \in Range(property.operators)
        \/ op = property.defaultOperator
        \/ property.defaultOperator = NULL /\ op = "="}

\* the operators of a set that prefix a text, ignoring case
Prefixing(ops, s) == {op \in ops : IsPrefixCI(OperatorChars(op), s)}

Longest(ops) == {op \in ops : \A o \in ops : Len(OperatorChars(o)) <= Len(OperatorChars(op))}

\* after parseText ran: the property it had to find, and what follows its label
Parsed == pc = "parseText"
FoundIndex == matchFilteringProperty(filteringProperties, filteringText)
Found == filteringProperties[FoundIndex]
Remainder == DropSpaces(Drop(filteringText, Len(Found.propertyLabel)))

-----------------------------------------------------------------------------
(* C1: when a property P matches and the text after P's label and any     *)
(* leading spaces starts with an operator P allows, parseText returns step *)
(* 'property' with P, the longest allowed operator that prefixes that      *)
(* text, and as value what follows the operator less at most one space.    *)
C1_PropertyStep ==
    (Parsed /\ FoundIndex # 0 /\ Prefixing(AllowedSet(Found), Remainder) # {}) =>
        /\ parsedText.step = "property"
        /\ parsedText.index = FoundIndex
        /\ parsedText.property = Found
        /\ parsedText.operator \in Longest(Prefixing(AllowedSet(Found), Remainder))
        /\ parsedText.value =
               DropOneSpace(Drop(Remainder, Len(OperatorChars(parsedText.operator))))

\* two spaces follow the operator and the value keeps the second one
C1_Witness ==
    /\ Parsed /\ FoundIndex # 0
    /\ parsedText.step = "property"
    /\ parsedText.value # <<>>
    /\ parsedText.value[1] = " "

(* C2: when a property P matches, no operator P allows prefixes the text   *)
(* after the label and its leading spaces, and that text is blank or a     *)
(* case-insensitive prefix of an operator P allows, parseText returns step *)
(* 'operator' with P and that text as operatorPrefix.                      *)
C2_OperatorStep ==
    (/\ Parsed /\ FoundIndex # 0
     /\ Prefixing(AllowedSet(Found), Remainder) = {}
     /\ \/ Remainder = <<>>
        \/ \E op \in AllowedSet(Found) : IsPrefixCI(Remainder, OperatorChars(op))) =>
        /\ parsedText.step = "operator"
        /\ parsedText.index = FoundIndex
        /\ parsedText.property = Found
        /\ parsedText.operatorPrefix = Remainder

\* "a !" with != allowed: the prefix is the one character typed so far
C2_Witness ==
    /\ Parsed /\ FoundIndex # 0
    /\ parsedText.step = "operator"
    /\ parsedText.operatorPrefix = <<"!">>


-----------------------------------------------------------------------------
\* no property matched and free-text filtering is enabled
FreeTextCase == Parsed /\ FoundIndex = 0 /\ ~freeTextFiltering.disabled
FreeTextOps == Range(freeTextFiltering.operators)
Bang == <<"!">>
BangColon == <<"!", ":">>

\* C3 as stated: with "!:" configured every text that starts with "!" but
\* not with "!:" gets operator "!:" and the text after the "!" less one
\* space; without "!:" every text that starts with "!" is plain free text.
C3_AsStated ==
    FreeTextCase =>
        /\ ("!:" \in FreeTextOps /\ IsPrefix(Bang, filteringText)
              /\ ~IsPrefix(BangColon, filteringText)) =>
               parsedText = [step |-> "free-text", operator |-> "!:",
                             value |-> DropOneSpace(Drop(filteringText, 1))]
        /\ ("!:" \in FreeTextOps /\ IsPrefix(BangColon, filteringText)) =>
               parsedText = [step |-> "free-text", operator |-> "!:",
                             value |-> DropOneSpace(Drop(filteringText, 2))]
        /\ ("!:" \notin FreeTextOps /\ IsPrefix(Bang, filteringText)) =>
               parsedText = [step |-> "free-text", value |-> filteringText]

(* C3, amended: the "!" shorthand and the plain free-text fallback apply   *)
(* to a text that starts with "!" only when no configured free-text        *)
(* operator prefixes the text; a text that starts with "!:" gets "!:".     *)
C3_BangShorthand ==
    FreeTextCase =>
        /\ ("!:" \in FreeTextOps /\ IsPrefix(Bang, filteringText)
              /\ Prefixing(FreeTextOps, filteringText) = {}) =>
               parsedText = [step |-> "free-text", operator |-> "!:",
                             value |-> DropOneSpace(Drop(filteringText, 1))]
        /\ ("!:" \in FreeTextOps /\ IsPrefix(BangColon, filteringText)) =>
               parsedText = [step |-> "free-text", operator |-> "!:",
                             value |-> DropOneSpace(Drop(filteringText, 2))]
        /\ ("!:" \notin FreeTextOps /\ IsPrefix(Bang, filteringText)
              /\ Prefixing(FreeTextOps, filteringText) = {}) =>
               parsedText = [step |-> "free-text", value |-> filteringText]

\* "! a" with "!:" configured: the shorthand, one space stripped
C3_Witness ==
    /\ FreeTextCase
    /\ "!:" \in FreeTextOps
    /\ IsPrefix(<<"!", " ">>, filteringText)
    /\ parsedText.step = "free-text"
    /\ "operator" \in DOMAIN parsedText
    /\ parsedText.operator = "!:"
    /\ parsedText.value # <<>>

(* C4: parseText classifies every input as 'property', 'operator' or       *)
(* 'free-text'; a text whose property label is followed by something that  *)
(* neither starts with an allowed operator nor is blank or the start of    *)
(* one is free text with the whole input as value and no operator.         *)
C4_AlwaysClassified ==
    Parsed =>
        /\ parsedText.step \in {"property", "operator", "free-text"}
        /\ (/\ FoundIndex # 0
            /\ Prefixing(AllowedSet(Found), Remainder) = {}
            /\ Remainder # <<>>
            /\ \A op \in AllowedSet(Found) : ~IsPrefixCI(Remainder, OperatorChars(op))) =>
               parsedText = [step |-> "free-text", value |-> filteringText]

\* "a !a": a label, then text that begins like an operator but is none
C4_Witness ==
    /\ Parsed /\ FoundIndex # 0
    /\ Remainder # <<>> /\ Remainder[1] = "!"
    /\ parsedText = [step |-> "free-text", value |-> filteringText]


-----------------------------------------------------------------------------
\* after matchFilteringProperty ran: the labels that prefix the text
PropertyMatched == pc = "matchFilteringProperty"
Label(i) == filteringProperties[i].propertyLabel
PrefixingLabels == {i \in 1..Len(filteringProperties) : IsPrefixCI(Label(i), filteringText)}
ExactLabels == {i \in PrefixingLabels : IsPrefix(Label(i), filteringText)}
\* the properties whose label prefixes the text and is as long as the returned one
Tied == {i \in PrefixingLabels : Len(Label(i)) = Len(Label(matched))}

(* C8: matchFilteringProperty returns none exactly when no label prefixes  *)
(* the text; otherwise the returned label prefixes the text (in some       *)
(* case), no prefixing label is longer, and if a label of that length      *)
(* prefixes the text case-sensitively the returned one does, wherever it   *)
(* stands in the list.                                                     *)
C8_LongestLabel ==
    PropertyMatched =>
        /\ matched = 0 <=> PrefixingLabels = {}
        /\ matched # 0 =>
              /\ matched \in PrefixingLabels
              /\ \A i \in PrefixingLabels : Len(Label(i)) <= Len(Label(matched))
              /\ (Tied \cap ExactLabels # {}) => matched \in ExactLabels

\* a label that matches only case-insensitively stands before one of the
\* same length that matches exactly, and the exact one is returned
C8_Witness ==
    /\ PropertyMatched
    /\ matched = 2
    /\ 1 \in Tied /\ 1 \notin ExactLabels

\* C9 as stated: among the tied properties of one kind (all matching
\* exactly, or none) the first of the list is returned.
C9_AsStated ==
    (PropertyMatched /\ matched # 0) =>
        \A i \in Tied : (i \in ExactLabels <=> matched \in ExactLabels) => matched <= i

(* C9, amended: among the properties that tie for the longest matching     *)
(* label, the last one whose label prefixes the text case-sensitively is   *)
(* returned (the second of two properties with an identical label); only   *)
(* if none of them matches case-sensitively, the first one is returned.    *)
C9_TieBreak ==
    (PropertyMatched /\ matched # 0) =>
        /\ matched \in Tied
        /\ IF Tied \cap ExactLabels # {}
           THEN matched \in ExactLabels /\ \A i \in Tied \cap ExactLabels : i <= matched
           ELSE \A i \in Tied : matched <= i

\* two properties with the same label, which prefixes the text exactly
C9_Witness ==
    /\ PropertyMatched
    /\ Len(filteringProperties) >= 2
    /\ Label(1) = Label(2)
    /\ {1, 2} \subseteq ExactLabels
    /\ matched = 2

\* after matchOperator ran: the operators that prefix the text
OperatorMatched == pc = "matchOperator"
OperatorLen(i) == Len(OperatorChars(allowedOperators[i]))
PrefixingOperators ==
    {i \in 1..Len(allowedOperators) :
        IsPrefixCI(OperatorChars(allowedOperators[i]), filteringText)}

(* C10: matchOperator returns the longest operator that prefixes the text  *)
(* ignoring case, the first of the list among those of that length, and    *)
(* none exactly when no operator prefixes the text.                        *)
C10_LongestOperator ==
    OperatorMatched =>
        /\ matched = 0 <=> PrefixingOperators = {}
        /\ matched # 0 =>
              /\ matched \in PrefixingOperators
              /\ \A i \in PrefixingOperators :
                    /\ OperatorLen(i) <= OperatorLen(matched)
                    /\ OperatorLen(i) = OperatorLen(matched) => matched <= i

\* two operators that differ only in case both prefix the text; the first is returned
C10_Witness ==
    /\ OperatorMatched
    /\ matched = 1
    /\ 2 \in PrefixingOperators
    /\ allowedOperators[1] # allowedOperators[2]
    /\ OperatorLen(2) = OperatorLen(1)


-----------------------------------------------------------------------------
\* the operator table of the specification, as pairs <<symbol, API name>>
OperatorTable ==
    { <<"=", "equals">>, <<"!=", "does-not-equal">>, <<":", "contains">>,
      <<"!:", "does-not-contain">>, <<"^", "starts-with">>,
      <<"!^", "does-not-start-with">>, <<">", "greater-than">>,
      <<"<", "less-than">>, <<">=", "greater-than-or-equal">>,
      <<"<=", "less-than-or-equal">> }

ApiNameOf(symbol) ==
    IF \E e \in OperatorTable : e[1] = symbol
    THEN (CHOOSE e \in OperatorTable : e[1] = symbol)[2] ELSE symbol

SymbolOf(name) ==
    IF \E e \in OperatorTable : e[2] = name
    THEN (CHOOSE e \in OperatorTable : e[2] = name)[1] ELSE name

QueryTokens == IF "tokens" \in DOMAIN query THEN query.tokens ELSE <<>>
\* the operation of the query; a query without the field counts as 'and'
QueryOperation == IF "operation" \in DOMAIN query THEN query.operation ELSE "and"
ApiAnd == apiQuery.filter.and
ApiOr == apiQuery.filter.or

\* a free-text token has no property key, be the field undefined or null
KeyOf(token) == IF token.propertyKey \in {UNDEFINED, NULL} THEN NULL ELSE token.propertyKey

(* C5: for a query with operation 'and' or 'or' and at least one token,    *)
(* apiToQueryFormat(queryToApiFormat(q)) has q's operation and q's tokens  *)
(* (key or no key, operator, value) in q's order.                          *)
C5_RoundTrip ==
    (/\ pc = "roundTrip"
     /\ QueryOperation \in {"and", "or"}
     /\ Len(QueryTokens) > 0) =>
        /\ convertedBack.operation = QueryOperation
        /\ Len(convertedBack.tokens) = Len(QueryTokens)
        /\ \A i \in 1..Len(QueryTokens) :
              /\ KeyOf(convertedBack.tokens[i]) = KeyOf(QueryTokens[i])
              /\ convertedBack.tokens[i].operator = QueryTokens[i].operator
              /\ convertedBack.tokens[i].value = QueryTokens[i].value

\* an 'or' query of two different tokens, one of them free text with an
\* operator of the table
C5_Witness ==
    /\ pc = "roundTrip"
    /\ QueryOperation = "or"
    /\ Len(QueryTokens) = 2
    /\ QueryTokens[1].propertyKey = UNDEFINED /\ QueryTokens[1].operator = "<"
    /\ QueryTokens[2].propertyKey = "status"
    /\ ApiOr[1].op = "less-than"
    /\ convertedBack.tokens[1].operator = "<"

\* every token as an entry { field, op, value }, in order
ExpectedItems(items) ==
    /\ Len(items) = Len(QueryTokens)
    /\ \A i \in 1..Len(QueryTokens) :
          /\ items[i].field = KeyOf(QueryTokens[i])
          /\ items[i].op = ApiNameOf(QueryTokens[i].operator)
          /\ items[i].value = QueryTokens[i].value

ReadAnd == IF "filter" \in DOMAIN apiQuery /\ "and" \in DOMAIN apiQuery.filter
           THEN apiQuery.filter.and ELSE <<>>
ReadOr  == IF "filter" \in DOMAIN apiQuery /\ "or" \in DOMAIN apiQuery.filter
           THEN apiQuery.filter.or ELSE <<>>
Chosen == IF ReadOr # <<>> THEN ReadOr ELSE ReadAnd

(* C7: apiToQueryFormat returns operation 'or' exactly when the 'or' array *)
(* is non-empty and 'and' otherwise (both arrays empty or the filter key   *)
(* missing: no tokens); its tokens are the entries of the chosen array in  *)
(* order, each op translated back to its symbol.                           *)
C7_ChosenArray ==
    pc \in {"apiToQueryFormat", "roundTrip"} =>
        /\ convertedBack.operation = "or" <=> ReadOr # <<>>
        /\ convertedBack.operation \in {"and", "or"}
        /\ Len(convertedBack.tokens) = Len(Chosen)
        /\ \A i \in 1..Len(Chosen) :
              /\ convertedBack.tokens[i].propertyKey = Chosen[i].field
              /\ convertedBack.tokens[i].operator = SymbolOf(Chosen[i].op)
              /\ convertedBack.tokens[i].value = Chosen[i].value

\* both arrays hold entries: the operation is 'or' and the 'and' entries are left out
C7_Witness ==
    /\ pc = "apiToQueryFormat"
    /\ ReadAnd # <<>> /\ ReadOr # <<>> /\ ReadAnd # ReadOr
    /\ convertedBack.operation = "or"
    /\ Len(convertedBack.tokens) = Len(ReadOr)
    /\ convertedBack.tokens[1].operator = "!:"

-----------------------------------------------------------------------------
\* after matchOperatorPrefix ran
PrefixMatched == pc = "matchOperatorPrefix"
Blank(s) == \A i \in 1..Len(s) : s[i] = " "

RECURSIVE DropTrailingSpaces(_)
DropTrailingSpaces(s) ==
    IF s # <<>> /\ s[Len(s)] = " " THEN DropTrailingSpaces(SubSeq(s, 1, Len(s) - 1)) ELSE s

Trimmed(s) == DropTrailingSpaces(DropSpaces(s))

\* s is the start of one of the allowed operators, ignoring case
StartsAnOperator(s) ==
    \E i \in 1..Len(allowedOperators) : IsPrefixCI(s, OperatorChars(allowedOperators[i]))

\* C11 as stated: the text is returned whenever the trimmed text starts an
\* allowed operator, surrounding spaces notwithstanding.
C11_AsStated ==
    PrefixMatched =>
        IF Blank(filteringText) THEN matchedPrefix = <<>>
        ELSE IF StartsAnOperator(Trimmed(filteringText)) THEN matchedPrefix = filteringText
        ELSE matchedPrefix = NULLSTRING

(* C11: matchOperatorPrefix returns '' for blank text; for non-blank text  *)
(* it returns the text unchanged exactly when the text as given, spaces    *)
(* included, is a case-insensitive prefix of some allowed operator, and    *)
(* none otherwise (so '! ' with '!=' allowed gives none).                  *)
C11_UntrimmedPrefix ==
    PrefixMatched =>
        IF Blank(filteringText) THEN matchedPrefix = <<>>
        ELSE IF StartsAnOperator(filteringText) THEN matchedPrefix = filteringText
        ELSE matchedPrefix = NULLSTRING

\* '! ' with '!=' allowed: the trimmed text starts '!=', the result is none
C11_Witness ==
    /\ PrefixMatched
    /\ filteringText = <<"!", " ">>
    /\ allowedOperators = <<"!=">>
    /\ matchedPrefix = NULLSTRING

-----------------------------------------------------------------------------
(* Vocabulary of the validators' properties *)

IPValidated == pc = "validateIPAddress"
PortValidated == pc = "validatePortNumber"

IsText == value # NULLSTRING
TrimmedValue == Trimmed(value)

\* the pieces of s between the occurrences of the character c
RECURSIVE Cut(_, _)
Cut(s, c) ==
    LET at == {i \in 1..Len(s) : s[i] = c}
    IN IF at = {} THEN <<s>>
       ELSE LET last == CHOOSE i \in at : \A j \in at : j <= i
            IN Append(Cut(SubSeq(s, 1, last - 1), c), SubSeq(s, last + 1, Len(s)))

IsNumeral(s) == s # <<>> /\ \A i \in 1..Len(s) : s[i] \in Digits

\* the number a numeral denotes
RECURSIVE DecimalFrom(_, _)
DecimalFrom(n, s) == IF s = <<>> THEN n ELSE DecimalFrom(10 * n + digitValue(Head(s)), Tail(s))
Decimal(s) == DecimalFrom(0, s)

\* the address and, after the first slash, the suffix of the trimmed value
HasSuffix == \E i \in 1..Len(TrimmedValue) : TrimmedValue[i] = "/"
FirstSlash == CHOOSE i \in 1..Len(TrimmedValue) :
                 TrimmedValue[i] = "/" /\ \A j \in 1..(i - 1) : TrimmedValue[j] # "/"
AddressText == IF HasSuffix THEN SubSeq(TrimmedValue, 1, FirstSlash - 1) ELSE TrimmedValue
SuffixText == SubSeq(TrimmedValue, FirstSlash + 1, Len(TrimmedValue))
Octets == Cut(AddressText, ".")

\* a.b.c.d or a.b.c.d/n, with numerals of at most the given numbers of digits
AddressShaped(octetDigits, suffixDigits) ==
    /\ IsText
    /\ Len(Octets) = 4
    /\ \A i \in 1..4 : IsNumeral(Octets[i]) /\ Len(Octets[i]) <= octetDigits
    /\ HasSuffix => IsNumeral(SuffixText) /\ Len(SuffixText) <= suffixDigits

OctetsInRange == \A i \in 1..4 : Decimal(Octets[i]) \in 0..255
SuffixInRange == HasSuffix => Decimal(SuffixText) \in 22..32

\* what C12 says of a result, for numerals of at most the given numbers of digits
IPVerdict(octetDigits, suffixDigits) ==
    IF ~AddressShaped(octetDigits, suffixDigits)
    THEN ~validation.valid /\ validation.error \in {IPFormat, IPRequired}
    ELSE IF ~OctetsInRange THEN ~validation.valid /\ validation.error = OctetRange
    ELSE IF ~SuffixInRange THEN ~validation.valid /\ validation.error = CidrRange
    ELSE validation.valid

\* C12 as stated: every a.b.c.d[/n] of decimal numerals is judged by the
\* values of its numerals, whatever their number of digits.
C12_AsStated ==
    IPValidated => IPVerdict(Len(value), Len(value))

(* C12: validateIPAddress reports valid exactly when the trimmed text is   *)
(* a.b.c.d or a.b.c.d/n with four octets of one to three digits each in    *)
(* [0,255] and, if present, a suffix of one or two digits with n in        *)
(* [22,32]; an octet beyond 255 gets the octet message, else a suffix      *)
(* outside [22,32] the CIDR message, and any other shape, a longer         *)
(* numeral included, a format or required error.                           *)
C12_ThreeDigitOctets ==
    IPValidated => IPVerdict(3, 2)

\* an address with the suffix /22, reported valid
C12_Witness ==
    /\ IPValidated
    /\ AddressShaped(3, 2)
    /\ HasSuffix
    /\ Decimal(SuffixText) = 22
    /\ validation.valid

RangeBounds == Cut(TrimmedValue, "-")
IsSinglePort == IsText /\ IsNumeral(TrimmedValue)
IsPortRange == IsText /\ Len(RangeBounds) = 2 /\ IsNumeral(RangeBounds[1]) /\ IsNumeral(RangeBounds[2])
IsPort(n) == n \in 1..65535

(* C14: validatePortNumber accepts a single decimal integer exactly when   *)
(* it lies in [1,65535], and a range start-end exactly when both bounds    *)
(* lie in [1,65535] and start < end; equal or inverted bounds within       *)
(* [1,65535] are rejected with the 'start must be less than end' message.  *)
C14_PortAndRange ==
    PortValidated =>
        /\ IsSinglePort => (validation.valid <=> IsPort(Decimal(TrimmedValue)))
        /\ IsPortRange =>
              LET start == Decimal(RangeBounds[1])
                  end == Decimal(RangeBounds[2])
              IN /\ validation.valid <=> (IsPort(start) /\ IsPort(end) /\ start < end)
                 /\ (IsPort(start) /\ IsPort(end) /\ start >= end) =>
                        (~validation.valid /\ validation.error = RangeOrder)

\* the range 500-500 is rejected with the message about the order of the bounds
C14_Witness ==
    /\ PortValidated
    /\ IsPortRange
    /\ Decimal(RangeBounds[1]) = 500
    /\ Decimal(RangeBounds[2]) = 500
    /\ validation = Invalid(RangeOrder)

\* the trimmed value as a comma-separated list, each entry trimmed
IsPortList == IsText /\ \E i \in 1..Len(TrimmedValue) : TrimmedValue[i] = ","
Entries == [i \in 1..Len(Cut(TrimmedValue, ",")) |-> Trimmed(Cut(TrimmedValue, ",")[i])]
IsPortEntry(e) == IsNumeral(e) /\ IsPort(Decimal(e))
BadEntries == {i \in 1..Len(Entries) : ~IsPortEntry(Entries[i])}

(* C15: for a comma-separated input validatePortNumber reports valid       *)
(* exactly when every entry, trimmed, is an integer in [1,65535]; an entry *)
(* that is out of range, empty or not purely a number makes the list       *)
(* invalid, with an error that names an offending entry.                   *)
C15_EveryEntryAPort ==
    (PortValidated /\ IsPortList) =>
        /\ validation.valid <=> BadEntries = {}
        /\ ~validation.valid => \E i \in BadEntries : validation.error = InvalidPort(Entries[i])

Validated == IPValidated \/ PortValidated
HasError == "error" \in DOMAIN validation
HasNormalizedValue == "normalizedValue" \in DOMAIN validation

-----------------------------------------------------------------------------
(* Vocabulary of the query actions' properties *)

\* the filter entry a token is emitted as
EntryOf(token) ==
    LET matchedToken == matchTokenValue(token, filteringOptions)
    IN [field |-> fieldOf(matchedToken.propertyKey),
        op    |-> operatorToApi(matchedToken.operator),
        value |-> matchedToken.value]

EntriesOf(tokens) == [i \in 1..Len(tokens) |-> EntryOf(tokens[i])]

\* the entries of an emitted query, and the array that holds them
ItemsOf(api) ==
    LET filter == FieldOr(api, "filter", EmptyObject)
    IN FieldOr(filter, "and", <<>>) \o FieldOr(filter, "or", <<>>)
OperationOf(api) == IF api.filter.or # <<>> THEN "or" ELSE "and"

CallsOf(action) == {k \in 1..Len(calls) : calls[k].action = action}

(* C17: every call on the actions object invokes onChange exactly once;    *)
(* addTokens(ts) emits the snapshot's tokens followed by all of ts in      *)
(* order, and each addToken(t) emits the snapshot's tokens followed by t   *)
(* alone, whatever was added by the calls before it.                       *)
C17_AddTokensAtOnce ==
    /\ Len(emitted) = Len(calls)
    /\ \A k \in CallsOf("addTokens") :
          ItemsOf(emitted[k]) = EntriesOf(query.tokens \o calls[k].newTokens)
    /\ \A k \in CallsOf("addToken") :
          ItemsOf(emitted[k]) = EntriesOf(query.tokens \o <<calls[k].token>>)

\* two addToken calls in a row: the second emission lacks the first token
C17_Witness ==
    /\ Len(calls) = 2
    /\ calls[1].action = "addToken"
    /\ calls[2].action = "addToken"
    /\ \A i \in 1..Len(ItemsOf(emitted[2])) : ItemsOf(emitted[2])[i] # EntryOf(calls[1].token)

\* the snapshot's tokens, positions counted from 0 as the actions count them
Snapshot == query.tokens
InSnapshot(i) == i \in 0..(Len(Snapshot) - 1)
Without(i) == [j \in 1..(Len(Snapshot) - 1) |-> IF j <= i THEN Snapshot[j] ELSE Snapshot[j + 1]]
ReplacedAt(i, t) == [j \in 1..Len(Snapshot) |-> IF j = i + 1 THEN t ELSE Snapshot[j]]

\* the emission of call k holds the given tokens under the snapshot's operation
EmitsUnderOperation(k, tokens) ==
    /\ emitted[k].filter.and = IF query.operation = "and" THEN EntriesOf(tokens) ELSE <<>>
    /\ emitted[k].filter.or = IF query.operation = "or" THEN EntriesOf(tokens) ELSE <<>>

C18_Emissions ==
    /\ Len(emitted) = Len(calls)
    /\ \A k \in CallsOf("removeToken") :
          EmitsUnderOperation(k, IF InSnapshot(calls[k].index)
                                 THEN Without(calls[k].index) ELSE Snapshot)
    /\ \A k \in CallsOf("updateToken") :
          EmitsUnderOperation(k, IF InSnapshot(calls[k].index)
                                 THEN ReplacedAt(calls[k].index, calls[k].token) ELSE Snapshot)

(* C18: removeToken(i) emits the query without the token at index i, the   *)
(* others in their order; updateToken(i, t) emits it with position i alone *)
(* replaced by t; for an index outside the list both emit the list as it   *)
(* is; each call invokes onChange once, keeps the operation, and leaves    *)
(* the query the actions were built from as it was.                        *)
C18_ReplaceAtIndex ==
    [](C18_Emissions) /\ [][query' = query]_vars

\* removeToken(0) on a snapshot of two different tokens emits the second alone
C18_Witness ==
    /\ Len(Snapshot) = 2
    /\ Snapshot[1] # Snapshot[2]
    /\ Len(calls) >= 1
    /\ calls[1] = [action |-> "removeToken", index |-> 0]
    /\ ItemsOf(emitted[1]) = <<EntryOf(Snapshot[2])>>

-----------------------------------------------------------------------------
(* Vocabulary of the component's properties *)

Submitted == pc = "createToken"
FreeTextApiOperators == {"contains", "does-not-contain"}

\* the entries of the host's query, and every entry ever emitted
QueryEntries == ItemsOf(apiQuery)
EmittedEntries == UNION {Range(ItemsOf(emitted[k])) : k \in 1..Len(emitted)}

(* C19: after any sequence of submissions through createToken every        *)
(* emitted entry whose field is null has the operator contains or          *)
(* does-not-contain, and none exists when free-text filtering is disabled; *)
(* a submission at the operator stage emits a free-text entry that holds   *)
(* the whole input with the default free-text operator.                    *)
C19_FreeTextOperators ==
    /\ \A entry \in EmittedEntries :
          entry.field = NULL =>
              (entry.op \in FreeTextApiOperators /\ ~freeTextFiltering.disabled)
    /\ (Submitted /\ parsedText.step = "operator" /\ ~freeTextFiltering.disabled) =>
          /\ emitted # <<>>
          /\ QueryEntries[Len(QueryEntries)] =
                 [field |-> NULL, op |-> "contains", value |-> submittedText]

\* 'i!' submitted after another token: the label and the partial operator are the value
C19_Witness ==
    /\ Submitted
    /\ parsedText.step = "operator"
    /\ submittedText = <<"i", "!">>
    /\ Len(QueryEntries) = 2
    /\ QueryEntries[2] = [field |-> NULL, op |-> "contains", value |-> <<"i", "!">>]

\* a step that hands a text at the property stage, with a value that is not
\* blank, to createToken; and what the property's validator says of the value
PropertySubmission ==
    /\ pc' = "createToken"
    /\ parsedText'.step = "property"
    /\ Trimmed(parsedText'.value) # <<>>
Verdict == validateTokenValue(parsedText'.value, parsedText'.property)

\* the entry of the token the submission adds
AddedEntry ==
    EntryOf([property |-> parsedText'.property.key,
             propertyKey |-> parsedText'.property.key,
             operator |-> parsedText'.operator,
             value |-> IF "normalizedValue" \in DOMAIN Verdict
                       THEN Verdict.normalizedValue ELSE parsedText'.value])

(* C20: a property-stage submission whose value fails the property's       *)
(* validator emits nothing, leaves the query and the input text as they    *)
(* are and records the validator's error; one that passes clears the       *)
(* error, appends one token, whose value is the validator's                *)
(* normalizedValue when one is returned, and clears the input.             *)
C20_ValidationGate ==
    [][PropertySubmission =>
          IF ~Verdict.valid
          THEN /\ emitted' = emitted
               /\ apiQuery' = apiQuery
               /\ filteringText' = filteringText
               /\ validationError' = Verdict.error
          ELSE /\ validationError' = NULLSTRING
               /\ Len(emitted') = Len(emitted) + 1
               /\ emitted'[Len(emitted')] = apiQuery'
               /\ ItemsOf(apiQuery') = ItemsOf(apiQuery) \o <<AddedEntry>>
               /\ filteringText' = <<>>]_vars

\* 'i=a' typed and submitted with one token in the query: the format error
\* is recorded, the text and the token stay
C20_Witness ==
    /\ Submitted
    /\ parsedText.step = "property"
    /\ filteringText = <<"i", "=", "a">>
    /\ submittedText = filteringText
    /\ validationError = IPFormat
    /\ Len(QueryEntries) = 1
    /\ Len(emitted) = 1

-----------------------------------------------------------------------------
(* Vocabulary of the suggestions' properties *)

Suggested == pc = "getAutosuggestOptions"

Groups == autosuggestOptions.options

\* the places of the suggestions shown: group and position in the group
Places == UNION {{<<g, i>> : i \in 1..Len(Groups[g].options)} : g \in 1..Len(Groups)}

Shown(place) == Groups[place[1]].options[place[2]]

GroupLabel(place) == Groups[place[1]].label

HiddenLabels ==
    {p.propertyLabel : p \in {q \in Range(filteringProperties) :
                                 "hidden" \in DOMAIN q /\ q.hidden}}

RefersTo(suggestion, label) ==
    \/ IsPrefix(label, suggestion.value)
    \/ "labelPrefix" \in DOMAIN suggestion /\ IsPrefix(label, suggestion.labelPrefix)

(* C21: no suggestion of any group (properties, operators, values) has a   *)
(* value or a label prefix that begins with the label of a hidden          *)
(* property.                                                               *)
C21_NoHiddenSuggestion ==
    Suggested =>
        \A place \in Places, label \in HiddenLabels : ~RefersTo(Shown(place), label)

-----------------------------------------------------------------------------
(* Vocabulary of the utility functions' properties *)

TokenMatched == pc = "matchTokenValue"

Typed == argument.token.value

\* the positions of the options of the token's property
OwnOptions ==
    {i \in 1..Len(argument.options) : argument.options[i].property = argument.token.property}

\* what an option is matched by: its label if it has one, else its raw value
MatchedBy(option) == IF "label" \in DOMAIN option THEN option.label ELSE option.value

EqualCI(s, t) == Len(s) = Len(t) /\ IsPrefixCI(s, t)

ExactMatches == {i \in OwnOptions : MatchedBy(argument.options[i]) = Typed}

LooseMatches == {i \in OwnOptions : EqualCI(MatchedBy(argument.options[i]), Typed)}

First(S) == CHOOSE i \in S : \A j \in S : i <= j

(* C22: matchTokenValue returns the value of the first option of the       *)
(* token's property that matches the typed value exactly (by its label if  *)
(* it has one, else by its raw value), even when an earlier option matches *)
(* ignoring case; with no exact match, the value of an option that matches *)
(* ignoring case; with no match at all, the typed value unchanged.         *)
C22_ExactThenLoose ==
    TokenMatched =>
        /\ returned.operator = argument.token.operator
        /\ IF ExactMatches # {}
           THEN returned.value = argument.options[First(ExactMatches)].value
           ELSE IF LooseMatches # {}
           THEN returned.value \in {argument.options[i].value : i \in LooseMatches}
           ELSE returned.value = Typed

\* an exact match stands behind an option that matches only ignoring case
C22_Witness ==
    /\ TokenMatched
    /\ ExactMatches # {}
    /\ \E i \in LooseMatches :
          /\ i < First(ExactMatches)
          /\ argument.options[i].value # argument.options[First(ExactMatches)].value
    /\ returned.value = argument.options[First(ExactMatches)].value
    /\ returned.value # Typed


Symbols == {e[1] : e \in OperatorTable}

ApiNames == {e[2] : e \in OperatorTable}

(* C23: on the table the two conversions are inverse: for each of the ten  *)
(* symbols apiToOperator(operatorToApi(sym)) = sym and for each of the ten *)
(* API names operatorToApi(apiToOperator(name)) = name; a string outside   *)
(* the respective table is returned unchanged by either function.          *)
C23_InverseOnTable ==
    /\ applied = <<"operatorToApi", "apiToOperator">> /\ argument.operator \in Symbols
          => returned = argument.operator
    /\ applied = <<"apiToOperator", "operatorToApi">> /\ argument.operator \in ApiNames
          => returned = argument.operator
    /\ applied = <<"operatorToApi">> /\ argument.operator \notin Symbols
          => returned = argument.operator
    /\ applied = <<"apiToOperator">> /\ argument.operator \notin ApiNames
          => returned = argument.operator


GroupsFlattened == pc = "tokenGroupToTokens"

IsSimpleToken(entry) == "operator" \in DOMAIN entry

\* what one entry contributes: itself, or the simple tokens directly inside it
Contribution(entry) ==
    IF IsSimpleToken(entry) THEN <<entry>>
    ELSE IF "tokens" \in DOMAIN entry THEN SelectSeq(entry.tokens, IsSimpleToken)
    ELSE <<>>

RECURSIVE Contributions(_)
Contributions(entries) ==
    IF entries = <<>> THEN <<>>
    ELSE Contribution(Head(entries)) \o Contributions(Tail(entries))

\* the entries held by a group that is itself held by a group
DeepEntries ==
    UNION {UNION {Range(inner.tokens) : inner \in {e \in Range(outer.tokens) : "tokens" \in DOMAIN e}} :
              outer \in {e \in Range(argument.tokenGroups) :
                            ~IsSimpleToken(e) /\ "tokens" \in DOMAIN e}}

OperatorsListed == pc = "getAllowedOperators"

DefaultOf(property) ==
    IF property.defaultOperator = NULL THEN "=" ELSE property.defaultOperator

\* the place of an operator in the canonical list =, !=, :, !:, ^, !^, >=, <=, <, >
CanonicalOrder == <<"=", "!=", ":", "!:", "^", "!^", ">=", "<=", "<", ">">>

Place(op) == CHOOSE i \in 1..Len(CanonicalOrder) : CanonicalOrder[i] = op

(* C25: getAllowedOperators returns exactly the operators of the canonical *)
(* list that are the property's default operator ('=' when none is         *)
(* configured) or among its configured operators, each once and in         *)
(* canonical order whatever the order of the configuration; the default    *)
(* operator is among them.                                                 *)
C25_CanonicalOrder ==
    OperatorsListed =>
        /\ Range(returned) =
              ({DefaultOf(argument.property)} \cup Range(argument.property.operators))
              \cap Canonical
        /\ \A i, j \in 1..Len(returned) : i < j => Place(returned[i]) < Place(returned[j])
        /\ DefaultOf(argument.property) \in Range(returned)

\* operators configured against the canonical order, one of them not of
\* the list, and a default that is not configured
C25_Witness ==
    /\ OperatorsListed
    /\ argument.property.operators = <<"~", "!=">>
    /\ argument.property.defaultOperator = NULL
    /\ returned = <<"=", "!=">>

-----------------------------------------------------------------------------

FreeTextStage == Suggested /\ parsedText.step = "free-text"

\* the operator the parse asks for; '=' when it names none
Requested == IF "operator" \in DOMAIN parsedText THEN parsedText.operator ELSE "="

Owned(option) == "property" \in DOMAIN option

Offered(option) ==
    /\ Owned(option)
    /\ \/ Requested \in AllowedSet(option.property)
       \/ "=" \in AllowedSet(option.property)

OperatorFor(option) ==
    IF Requested \in AllowedSet(option.property) THEN Requested ELSE "="

\* '<label> <op> <value>'
Composite(label, op, v) == label \o <<" ">> \o OperatorChars(op) \o <<" ">> \o v

\* the suggestions of the values group, none when there is no such group
ValuesGroup ==
    LET at == {g \in 1..Len(Groups) : Groups[g].label = "Values"}
    IN IF at = {} THEN <<>> ELSE Groups[CHOOSE g \in at : TRUE].options

OfferedOptions == SelectSeq(filteringOptions, Offered)

(* C26: in the free-text stage with a non-empty value the values group     *)
(* holds one suggestion for each option whose property allows the          *)
(* requested operator or '=', in the options' order, and for no other      *)
(* option; each uses the requested operator if its property allows it and  *)
(* '=' otherwise, an operator its property allows.                         *)
C26_ValueSuggestions ==
    FreeTextStage /\ parsedText.value # <<>> =>
        /\ Len(ValuesGroup) = Len(OfferedOptions)
        /\ \A k \in 1..Len(OfferedOptions) :
              LET option == OfferedOptions[k]
                  op == OperatorFor(option)
              IN /\ ValuesGroup[k].value =
                       Composite(option.property.propertyLabel, op, option.value)
                 /\ op \in AllowedSet(option.property)

\* ':' is requested; one property allows it, one only '=', and an option
\* of no property is left out
C26_Witness ==
    /\ FreeTextStage
    /\ parsedText.value # <<>>
    /\ Requested = ":"
    /\ \E i, j \in 1..Len(OfferedOptions) :
          /\ OperatorFor(OfferedOptions[i]) = ":"
          /\ OperatorFor(OfferedOptions[j]) = "="
    /\ Len(ValuesGroup) = 2

-----------------------------------------------------------------------------

ValueSelected == pc = "handleOptionSelect"

\* the options the suggestions of the selected group were built from, in
\* order: at the property stage those of the parsed property, at the
\* free-text stage those offered
OfParsedProperty(option) == Owned(option) /\ option.property = parsedText.property

SourceOptions ==
    IF parsedText.step = "property" THEN SelectSeq(filteringOptions, OfParsedProperty)
    ELSE OfferedOptions

SourceOption == SourceOptions[selected.index]

SourceOperator ==
    IF parsedText.step = "property" THEN parsedText.operator ELSE OperatorFor(SourceOption)

ParsesBack ==
    /\ reparsed.step = "property"
    /\ reparsed.property = SourceOption.property
    /\ reparsed.operator = SourceOperator
    /\ reparsed.value = SourceOption.value

(* C30 as stated: the composite value of every value suggestion built for *)
(* an option of property P with operator op parses back, over the same    *)
(* property list, to step 'property' with P, op and the option's raw      *)
(* value.                                                                  *)
C30_AsStated == ValueSelected => ParsesBack

\* the last property of the list that has the label of the given one
LastOfLabel(property) ==
    LET same == {i \in 1..Len(filteringProperties) :
                    filteringProperties[i].propertyLabel = property.propertyLabel}
    IN filteringProperties[CHOOSE i \in same : \A j \in same : j <= i]

(* C30, amended: the composite value parses back to P, op and the option's *)
(* raw value when P is the last property of the list with its label; for   *)
(* an earlier property with the same label the parse finds the last one    *)
(* instead: step 'property' with that property if it allows op, and no     *)
(* property step otherwise.                                                *)
C30_LastOfLabel ==
    ValueSelected =>
        IF LastOfLabel(SourceOption.property) = SourceOption.property
        THEN ParsesBack
        ELSE /\ ~ParsesBack
             /\ IF SourceOperator \in AllowedSet(LastOfLabel(SourceOption.property))
                THEN /\ reparsed.step = "property"
                     /\ reparsed.property = LastOfLabel(SourceOption.property)
                     /\ reparsed.operator = SourceOperator
                     /\ reparsed.value = SourceOption.value
                ELSE reparsed.step # "property"

\* a suggestion of the free-text stage, built with '=' in place of the
\* requested ':', for a value that starts with a space, parses back
C30_Witness ==
    /\ ValueSelected
    /\ parsedText.step = "free-text"
    /\ Requested = ":"
    /\ SourceOperator = "="
    /\ SourceOption.value = <<" ", "=">>
    /\ ParsesBack

-----------------------------------------------------------------------------
\* The number of suggestions the dropdown lists, and whether the highlight
\* is on one of them.
Listed == Len(flatOptions)

OnOption == highlightedIndex \in 0..(Listed - 1)

ArrowPress == ArrowDown \/ ArrowUp

\* C27: every ArrowDown or ArrowUp press over a dropdown that lists n >= 1
\* suggestions leaves the highlighted index in 0..n-1; ArrowDown on the last
\* suggestion moves the highlight to the first, and ArrowUp on the first
\* suggestion, or with nothing highlighted, moves it to the last.
C27_ArrowsInRange ==
    [][ (ArrowPress /\ Listed >= 1) =>
          /\ highlightedIndex' \in 0..(Listed - 1)
          /\ (ArrowDown /\ highlightedIndex = Listed - 1) => highlightedIndex' = 0
          /\ (ArrowUp /\ (highlightedIndex = 0 \/ ~OnOption)) =>
                 highlightedIndex' = Listed - 1 ]_vars

-----------------------------------------------------------------------------
\* The query a call started from, the call, and the query the next call
\* will start from.
Started == query

LastCall == calls[1]

Called == calls # <<>>

FedBack == internalQuery(apiQuery, filteringProperties)

\* the operation the claim expects in the fed-back query
ExpectedOperation ==
    IF LastCall.action = "updateOperation" THEN LastCall.operation ELSE Started.operation

\* C28 as stated: after any call whose emitted API query is fed back, the
\* operation is the one the call started from, unless the call was
\* updateOperation, and then it is the operation that call set.
C28_AsStated == Called => FedBack.operation = ExpectedOperation

\* C28: after any call whose emitted API query is fed back and holds at least
\* one token, the operation is the one the call started from, unless the call
\* was updateOperation, and then it is the operation that call set; a fed-back
\* query without tokens has the operation 'and'.
C28_OperationKept ==
    Called => FedBack.operation = (IF FedBack.tokens # <<>> THEN ExpectedOperation ELSE "and")

\* a token was removed from an 'or' query that still holds one, and
\* updateOperation made a query with tokens an 'or' query
C28_Witness ==
    /\ Called
    /\ FedBack.tokens # <<>>
    /\ FedBack.operation = "or"
    /\ \/ LastCall.action = "removeToken" /\ Len(Started.tokens) > Len(FedBack.tokens)
       \/ LastCall.action = "updateOperation" /\ Started.operation = "and"

-----------------------------------------------------------------------------
\* The tokens a call does not target, as they were in the query the call
\* started from and as they are in the query fed back after it.  Positions
\* count from 1; the call's index counts from 0.
AllBut(tokens, index) ==
    IF index \in 0..(Len(tokens) - 1)
    THEN [i \in 1..(Len(tokens) - 1) |-> IF i <= index THEN tokens[i] ELSE tokens[i + 1]]
    ELSE tokens

UntargetedBefore ==
    CASE LastCall.action \in {"addToken", "addTokens", "updateOperation"} -> Started.tokens
      [] LastCall.action \in {"updateToken", "removeToken"} ->
             AllBut(Started.tokens, LastCall.index)
      [] LastCall.action = "removeAllTokens" -> <<>>

UntargetedAfter ==
    CASE LastCall.action \in {"addToken", "addTokens"} ->
             SubSeq(FedBack.tokens, 1, Len(Started.tokens))
      [] LastCall.action = "updateToken" -> AllBut(FedBack.tokens, LastCall.index)
      [] LastCall.action \in {"removeToken", "updateOperation"} -> FedBack.tokens
      [] LastCall.action = "removeAllTokens" -> <<>>

\* the call started from a query that an earlier call emitted
Reemitted == Len(emitted) = 2

\* the text an option is matched by, and option lists in which no option is
\* matched by the value of an option of the same property with another value
MatchText(option) == IF "label" \in DOMAIN option THEN option.label ELSE option.value

Separated(options) ==
    \A o \in Range(options), other \in Range(options) :
        (o.property = other.property /\ toLowerCase(MatchText(other)) = toLowerCase(o.value))
            => other.value = o.value

Rematched(token) == matchTokenValue(token, filteringOptions).value

\* C29 as stated: for every option list, matching an emitted token again
\* returns the value it has, and a call that starts from an emitted query
\* emits every token it does not target with the field, operator and value
\* the token had.
C29_AsStated ==
    /\ Called => \A i \in 1..Len(FedBack.tokens) :
                     Rematched(FedBack.tokens[i]) = FedBack.tokens[i].value
    /\ Reemitted => UntargetedAfter = UntargetedBefore

\* C29: for every option list in which no option's label (or value, when it
\* has no label) equals, ignoring case, the value of an option of the same
\* property with a different value, matching an emitted token again returns
\* the value it has, and a call that starts from an emitted query emits
\* every token it does not target with the field, operator and value the
\* token had.
C29_MatchedOnce ==
    Separated(filteringOptions) => C29_AsStated

\* a call left alone a token whose value an earlier call had matched to an
\* option by its label
C29_Witness ==
    /\ Reemitted
    /\ Separated(filteringOptions)
    /\ \E i \in 1..Len(UntargetedBefore) :
       \E option \in Range(filteringOptions) :
          /\ option.property = UntargetedBefore[i].property
          /\ option.value = UntargetedBefore[i].value
          /\ option.label # option.value
          /\ UntargetedAfter[i] = UntargetedBefore[i]

====
